---- MODULE Spec2Model ----
(***************************************************************************)
(* A model of the PPE violation detection API (FastAPI + SQLAlchemy).      *)
(*                                                                         *)
(* The state is the relational store (organizations, users, devices,       *)
(* cameras, camera rules, violations, capabilities), the media directory,  *)
(* the wall clock, the tokens the clients hold, and the last response.     *)
(* Every request handler is one atomic action: the handlers suspend only   *)
(* at I/O and each runs in one database session.                           *)
(*                                                                         *)
(* Time is counted in minutes.  Ids are uuid4 values in the code; here an  *)
(* id is <<table, n>>, n the row's position in its table, so ids of        *)
(* different tables never coincide.                                        *)
(***************************************************************************)
EXTENDS Integers, Sequences, FiniteSets, TLC

VARIABLES
    now,          \* datetime.utcnow(), in minutes
    ticks,        \* how often the clock has advanced (bounds the run)
    orgs,         \* organizations table: sequence of names
    users,        \* users table
    devices,      \* devices table
    cameras,      \* cameras table
    rules,        \* camera_rules table
    violations,   \* violations table
    caps,         \* organization_capabilities table
    files,        \* evidence files present under media/
    session,      \* per user: the user token its client holds
    consumed,     \* per user: the OTP code its last successful verify used up
    resp,         \* the last request and its response
    requests      \* the requests served concurrently, and their responses

vars == <<now, ticks, orgs, users, devices, cameras, rules, violations,
          caps, files, session, consumed, resp, requests>>

----------------------------------------------------------------------------
(* Bounds of the model *)

MaxTicks == 2
MaxEpochs == 1

(* Program constants, in minutes *)

ACCESS_TOKEN_EXPIRE_MINUTES == 30
OtpExpireMinutes == 5
DefaultExpireMinutes == 30 * 24 * 60
DeviceExpireMinutes == 365 * 10 * 24 * 60

----------------------------------------------------------------------------
(* Values *)

NoId == <<"none", 0>>
NoTime == -1
NoHash == [h |-> "none"]
NoToken == [sub |-> NoId, type |-> "none", exp |-> NoTime, sig |-> FALSE]
NoCode == "none"
Undelivered == "undelivered"

(* media/placeholder.jpg *)
Placeholder == <<"placeholder", 0>>

(* No file is served *)
NoFile == <<"none", 0>>

UserId(i) == <<"user", i>>
DeviceId(i) == <<"device", i>>
OrgId(i) == <<"org", i>>
CameraId(i) == <<"camera", i>>
ViolationId(i) == <<"violation", i>>

UserIds == {UserId(i) : i \in 1..Len(users)}
DeviceIds == {DeviceId(i) : i \in 1..Len(devices)}

(* str.lower() on the e-mail addresses of the model *)
Lower(e) == IF e = "A@x" THEN "a@x" ELSE e

----------------------------------------------------------------------------
(* app/core/security.py *)

(* pwd_context.hash: the hash stands for the plain text it was made from *)
get_password_hash(password) == [h |-> password]

verify_password(plain_password, hashed_password) ==
    hashed_password = get_password_hash(plain_password)

create_access_token(subject, token_type, expires_delta) ==
    [sub |-> subject, type |-> token_type,
     exp |-> now + (IF expires_delta # 0 THEN expires_delta ELSE DefaultExpireMinutes),
     sig |-> TRUE]

create_device_token(device_id) ==
    create_access_token(device_id, "device", DeviceExpireMinutes)

(* jose.jwt.decode: the signature and the exp claim are verified; a failure
   is a JWTError *)
JwtDecodes(token) == token.sig /\ now <= token.exp

----------------------------------------------------------------------------
(* The response record: what the last request was and what it returned *)

Resp0 ==
    [op |-> "none", status |-> 0, presented |-> NoToken, email |-> "none",
     secret |-> "none", principal |-> NoId, token |-> NoToken,
     is_2fa_required |-> FALSE, target |-> NoId, camera |-> NoId,
     body |-> NoFile, query |-> <<>>,
     mail_sent |-> TRUE, detail |-> "none",
     challenge |-> [otp_hash |-> NoHash, otp_expires_at |-> NoTime],
     replay |-> FALSE]

(* No request is being answered *)
Idle == resp.op = "none"

(* The response is delivered to the client *)
Return ==
    /\ ~Idle
    /\ resp' = Resp0
    /\ UNCHANGED <<requests, now, ticks, orgs, users, devices, cameras, rules,
                   violations, caps, files, session, consumed>>

----------------------------------------------------------------------------
(* app/core/dependencies.py *)

(* The user guard without its test of the type tag *)
get_current_active_user_untyped(token) ==
    IF ~JwtDecodes(token) \/ token.sub = NoId
    THEN [status |-> 401, user |-> NoId]
    ELSE IF token.sub \notin UserIds \/ ~users[token.sub[2]].is_active
         THEN [status |-> 404, user |-> NoId]
         ELSE [status |-> 200, user |-> token.sub]

(* The user guard: 401 unless the token decodes and is tagged "user", 404
   unless its subject is an active user; otherwise that user *)
get_current_active_user(token) ==
    IF ~JwtDecodes(token) \/ token.sub = NoId \/ token.type # "user"
    THEN [status |-> 401, user |-> NoId]
    ELSE IF token.sub \notin UserIds \/ ~users[token.sub[2]].is_active
         THEN [status |-> 404, user |-> NoId]
         ELSE [status |-> 200, user |-> token.sub]

(* The tokens a client can present to a user endpoint: the user tokens and
   device tokens the service has handed out, tokens with a wrong signature,
   and validly signed tokens of another kind with any subject *)
HeldTokens ==
    ({session[i] : i \in 1..Len(users)} \ {NoToken})
        \cup {devices[d].device_token_secret : d \in 1..Len(devices)}

ForgedTokens ==
    {[sub |-> s, type |-> "user", exp |-> now + ACCESS_TOKEN_EXPIRE_MINUTES,
      sig |-> FALSE] : s \in UserIds}

OtherKindTokens ==
    {[sub |-> s, type |-> k, exp |-> now + ACCESS_TOKEN_EXPIRE_MINUTES,
      sig |-> TRUE] : s \in UserIds, k \in {"device"}}

BearerTokens == HeldTokens \cup ForgedTokens \cup OtherKindTokens

----------------------------------------------------------------------------
(* app/core/security.py, generate_otp_code: a numeric one-time code *)

OtpCodes == {"111111", "222222"}

generate_otp_code == OtpCodes

----------------------------------------------------------------------------
(* Rows *)

NewUser(org, email, password, role) ==
    [organization_id |-> org, email |-> email,
     password_hash |-> get_password_hash(password), role |-> role,
     is_active |-> TRUE, is_2fa_enabled |-> FALSE,
     otp_hash |-> NoHash, otp_expires_at |-> NoTime]

NewDevice(org, name) ==
    [organization_id |-> org, name |-> name,
     device_token_secret |-> create_device_token(DeviceId(Len(devices) + 1)),
     last_heartbeat |-> NoTime]

(* select(User).where(User.email == email): the matching rows *)
UsersByEmail(email) == {i \in 1..Len(users) : users[i].email = email}

----------------------------------------------------------------------------
(* app/routers/auth.py *)

(* POST /auth/register/organization *)
register_organization(names, emails, passwords) ==
    /\ Idle
    /\ \E name \in names, email \in emails, password \in passwords :
           LET taken == UsersByEmail(email) # {}
               dup == \E o \in 1..Len(orgs) : orgs[o] = name
               ok == ~taken /\ ~dup
               org == OrgId(Len(orgs) + 1)
               device == NewDevice(org, "edge")
           IN  /\ orgs' = IF ok THEN Append(orgs, name) ELSE orgs
               /\ users' = IF ok THEN Append(users, NewUser(org, email, password, "GlobalAdmin"))
                           ELSE users
               /\ devices' = IF ok THEN Append(devices, device) ELSE devices
               /\ session' = IF ok THEN Append(session, NoToken) ELSE session
               /\ consumed' = IF ok THEN Append(consumed, NoCode) ELSE consumed
               /\ resp' = [Resp0 EXCEPT
                               !.op = "register_organization",
                               !.status = IF taken THEN 400 ELSE IF dup THEN 500 ELSE 201,
                               !.email = email, !.secret = password,
                               !.principal = IF ok THEN UserId(Len(users) + 1) ELSE NoId,
                               !.target = IF ok THEN DeviceId(Len(devices) + 1) ELSE NoId,
                               !.token = IF ok THEN device.device_token_secret ELSE NoToken]
               /\ UNCHANGED <<requests, now, ticks, cameras, rules, violations, caps, files>>

(* .scalars().first(): one of the matching rows, 0 when there is none *)
First(rows) == IF rows = {} THEN {0} ELSE rows

(* A login that takes the OTP back when the e-mail dispatch fails *)
login_rolls_back(emails, passwords) ==
    /\ Idle
    /\ \E email \in emails, password \in passwords :
         \E i \in First(UsersByEmail(Lower(email))) :
           LET rejected == \/ i = 0
                           \/ ~users[i].is_active
                           \/ ~verify_password(password, users[i].password_hash)
               two_factor == ~rejected /\ users[i].is_2fa_enabled
               access_token == create_access_token(UserId(i), "user",
                                                   ACCESS_TOKEN_EXPIRE_MINUTES)
           IN  \E otp \in IF two_factor THEN generate_otp_code ELSE {NoCode},
                  mail_sent \in IF two_factor THEN BOOLEAN ELSE {TRUE} :
               /\ users' = IF two_factor /\ mail_sent
                           THEN [users EXCEPT
                                   ![i].otp_hash = get_password_hash(otp),
                                   ![i].otp_expires_at = now + OtpExpireMinutes]
                           ELSE users
               /\ consumed' = IF two_factor
                              THEN [consumed EXCEPT
                                      ![i] = IF mail_sent THEN NoCode ELSE Undelivered]
                              ELSE consumed
               /\ session' = IF ~rejected /\ ~two_factor
                             THEN [session EXCEPT ![i] = access_token]
                             ELSE session
               /\ resp' = [Resp0 EXCEPT
                               !.op = "login",
                               !.status = IF rejected THEN 401
                                          ELSE IF two_factor /\ ~mail_sent THEN 500
                                          ELSE 200,
                               !.email = email, !.secret = password,
                               !.principal = IF rejected THEN NoId ELSE UserId(i),
                               !.is_2fa_required = two_factor /\ mail_sent,
                               !.mail_sent = mail_sent,
                               !.token = IF ~rejected /\ ~two_factor THEN access_token
                                         ELSE NoToken]
               /\ UNCHANGED <<requests, now, ticks, orgs, devices, cameras, rules,
                              violations, caps, files>>


(* POST /auth/token *)
login_for_access_token(emails, passwords) ==
    /\ Idle
    /\ \E email \in emails, password \in passwords :
         \E i \in First(UsersByEmail(Lower(email))) :
           LET rejected == \/ i = 0
                           \/ ~users[i].is_active
                           \/ ~verify_password(password, users[i].password_hash)
               two_factor == ~rejected /\ users[i].is_2fa_enabled
               access_token == create_access_token(UserId(i), "user",
                                                   ACCESS_TOKEN_EXPIRE_MINUTES)
           IN  \E otp \in IF two_factor THEN generate_otp_code ELSE {NoCode},
                  mail_sent \in IF two_factor THEN BOOLEAN ELSE {TRUE} :
               /\ users' = IF two_factor
                           THEN [users EXCEPT
                                   ![i].otp_hash = get_password_hash(otp),
                                   ![i].otp_expires_at = now + OtpExpireMinutes]
                           ELSE users
               /\ consumed' = IF two_factor
                              THEN [consumed EXCEPT
                                      ![i] = IF mail_sent THEN NoCode ELSE Undelivered]
                              ELSE consumed
               /\ session' = IF ~rejected /\ ~two_factor
                             THEN [session EXCEPT ![i] = access_token]
                             ELSE session
               /\ resp' = [Resp0 EXCEPT
                               !.op = "login",
                               !.status = IF rejected THEN 401
                                          ELSE IF two_factor /\ ~mail_sent THEN 500
                                          ELSE 200,
                               !.email = email, !.secret = password,
                               !.principal = IF rejected THEN NoId ELSE UserId(i),
                               !.is_2fa_required = two_factor /\ mail_sent,
                               !.mail_sent = mail_sent,
                               !.token = IF ~rejected /\ ~two_factor THEN access_token
                                         ELSE NoToken]
               /\ UNCHANGED <<requests, now, ticks, orgs, devices, cameras, rules,
                              violations, caps, files>>

(* verify_2fa_code's checks without the test of the expiry *)
verify_2fa_checks_unexpiring(i, otp_code) ==
    IF i = 0 THEN 400
    ELSE IF users[i].otp_hash = NoHash \/ users[i].otp_expires_at = NoTime THEN 400
    ELSE IF ~verify_password(otp_code, users[i].otp_hash) THEN 400
    ELSE 200

(* verify_2fa_code's checks on the row the e-mail lookup returned: the
   status it answers with *)
verify_2fa_checks(i, otp_code) ==
    IF i = 0 THEN 400
    ELSE IF users[i].otp_hash = NoHash \/ users[i].otp_expires_at = NoTime THEN 400
    ELSE IF now > users[i].otp_expires_at THEN 400
    ELSE IF ~verify_password(otp_code, users[i].otp_hash) THEN 400
    ELSE 200

(* verify_2fa_code's checks, the code compared before the expiry *)
verify_2fa_detail_code_first(i, otp_code) ==
    IF i = 0 THEN "User not found"
    ELSE IF users[i].otp_hash = NoHash \/ users[i].otp_expires_at = NoTime
         THEN "No 2FA request pending."
    ELSE IF ~verify_password(otp_code, users[i].otp_hash)
         THEN "Invalid verification code."
    ELSE IF now > users[i].otp_expires_at THEN "Code expired. Please login again."
    ELSE "none"

(* verify_2fa_code's checks on the row the e-mail lookup returned: the
   detail of the HTTPException it raises, "none" when it raises none *)
verify_2fa_detail(i, otp_code) ==
    IF i = 0 THEN "User not found"
    ELSE IF users[i].otp_hash = NoHash \/ users[i].otp_expires_at = NoTime
         THEN "No 2FA request pending."
    ELSE IF now > users[i].otp_expires_at THEN "Code expired. Please login again."
    ELSE IF ~verify_password(otp_code, users[i].otp_hash)
         THEN "Invalid verification code."
    ELSE "none"

(* verify_2fa_code on success, were the OTP fields kept *)
clear_otp_kept(user) == user

(* verify_2fa_code on success: the row with its OTP fields cleared *)
clear_otp(user) == [user EXCEPT !.otp_hash = NoHash, !.otp_expires_at = NoTime]

(* POST /auth/2fa/verify *)
verify_2fa_code(emails) ==
    /\ Idle
    /\ \E email \in emails, otp_code \in OtpCodes :
         \E i \in First(UsersByEmail(Lower(email))) :
           LET status == verify_2fa_checks(i, otp_code)
               access_token == create_access_token(UserId(i), "user",
                                                   ACCESS_TOKEN_EXPIRE_MINUTES)
           IN  /\ users' = IF status = 200 THEN [users EXCEPT ![i] = clear_otp(users[i])]
                           ELSE users
               /\ consumed' = IF status = 200 THEN [consumed EXCEPT ![i] = otp_code]
                              ELSE consumed
               /\ session' = IF status = 200 THEN [session EXCEPT ![i] = access_token]
                             ELSE session
               /\ resp' = [Resp0 EXCEPT
                               !.op = "verify_2fa", !.status = status,
                               !.detail = verify_2fa_detail(i, otp_code),
                               !.email = email, !.secret = otp_code,
                               !.principal = IF i = 0 THEN NoId ELSE UserId(i),
                               !.challenge = IF i = 0 THEN Resp0.challenge
                                             ELSE [otp_hash |-> users[i].otp_hash,
                                                   otp_expires_at |-> users[i].otp_expires_at],
                               !.replay = i # 0 /\ consumed[i] = otp_code,
                               !.mail_sent = ~(i # 0 /\ consumed[i] = Undelivered),
                               !.token = IF status = 200 THEN access_token ELSE NoToken]
               /\ UNCHANGED <<requests, now, ticks, orgs, devices, cameras, rules,
                              violations, caps, files>>

(* PUT /auth/2fa/toggle *)
toggle_2fa ==
    /\ Idle
    /\ \E token \in BearerTokens :
         \E enable \in IF get_current_active_user(token).status = 200 THEN BOOLEAN
                        ELSE {FALSE} :
           LET current == get_current_active_user(token)
           IN  /\ users' = IF current.status = 200
                           THEN [users EXCEPT ![current.user[2]].is_2fa_enabled = enable]
                           ELSE users
               /\ resp' = [Resp0 EXCEPT
                               !.op = "toggle_2fa", !.status = current.status,
                               !.presented = token, !.principal = current.user]
               /\ UNCHANGED <<requests, now, ticks, orgs, devices, cameras, rules,
                              violations, caps, files, session, consumed>>

(* GET /auth/users/me *)
read_users_me ==
    /\ Idle
    /\ \E token \in BearerTokens :
           LET current == get_current_active_user(token)
           IN  /\ resp' = [Resp0 EXCEPT
                               !.op = "read_users_me", !.status = current.status,
                               !.presented = token, !.principal = current.user,
                               !.email = IF current.status = 200
                                         THEN users[current.user[2]].email ELSE "none"]
               /\ UNCHANGED <<requests, now, ticks, orgs, users, devices, cameras, rules,
                              violations, caps, files, session, consumed>>

----------------------------------------------------------------------------
(* app/routers/devices.py *)

(* select(Device).where(Device.device_token_secret == device_token) *)
DevicesByToken(device_token) ==
    {d \in 1..Len(devices) : devices[d].device_token_secret = device_token}

(* The camera handshake creates *)
NewCamera(d, rtsp_url) ==
    [organization_id |-> devices[d].organization_id, device_id |-> DeviceId(d),
     name |-> rtsp_url, rtsp_url |-> rtsp_url, local_timezone |-> "UTC",
     status |-> "Online", location |-> "none"]

(* The default rules handshake creates with a camera *)
NewCameraRule(camera_id) ==
    [camera_id |-> camera_id, ppe_helmet_required |-> FALSE,
     ppe_vest_required |-> FALSE, ppe_glasses_required |-> FALSE,
     active_rules |-> {}]

(* handshake's loop over data.cameras, from the i-th entry on: the cameras
   table after it *)
SyncCameras_insert_all(cams, d, urls, i) ==
    cams \o [k \in 1..(Len(urls) + 1 - i) |-> NewCamera(d, urls[i + k - 1])]

RECURSIVE SyncCameras(_, _, _, _)
SyncCameras(cams, d, urls, i) ==
    IF i > Len(urls) THEN cams
    ELSE LET existing == {c \in 1..Len(cams) :
                             /\ cams[c].device_id = DeviceId(d)
                             /\ cams[c].rtsp_url = urls[i]}
         IN  IF existing # {}
             THEN LET c == CHOOSE x \in existing : \A y \in existing : x <= y
                  IN  SyncCameras([cams EXCEPT ![c].status = "Online"], d, urls, i + 1)
             ELSE SyncCameras(Append(cams, NewCamera(d, urls[i])), d, urls, i + 1)

(* The rules rows of the cameras handshake has added *)
RECURSIVE SyncRules(_, _, _)
SyncRules(rs, cams, c) ==
    IF c > Len(cams) THEN rs
    ELSE SyncRules(Append(rs, NewCameraRule(CameraId(c))), cams, c + 1)

(* POST /devices/handshake *)
handshake(tokens, hostnames, camera_lists) ==
    /\ Idle
    /\ \E device_token_secret \in tokens, hostname \in hostnames, urls \in camera_lists :
         \E d \in First(DevicesByToken(device_token_secret)) :
           LET synced == IF d = 0 THEN cameras ELSE SyncCameras(cameras, d, urls, 1)
           IN  /\ devices' = IF d = 0 THEN devices
                             ELSE [devices EXCEPT ![d].last_heartbeat = now,
                                                  ![d].name = hostname]
               /\ cameras' = synced
               /\ rules' = SyncRules(rules, synced, Len(cameras) + 1)
               /\ resp' = [Resp0 EXCEPT
                               !.op = "handshake",
                               !.status = IF d = 0 THEN 403 ELSE 200,
                               !.presented = device_token_secret,
                               !.query = urls,
                               !.principal = IF d = 0 THEN NoId ELSE DeviceId(d)]
               /\ UNCHANGED <<requests, now, ticks, orgs, users, violations, caps, files,
                              session, consumed>>

(* select(Camera, CameraRule).join(CameraRule).where(Camera.device_id ==
   device_id): the entries of get_device_config's config_list *)
config_list(device_id) ==
    {[camera_id |-> CameraId(c), rtsp_url |-> cameras[c].rtsp_url,
      required_ppe |-> rules[r].active_rules] :
        <<c, r>> \in {x \in (1..Len(cameras)) \X (1..Len(rules)) :
                         /\ cameras[x[1]].device_id = DeviceId(device_id)
                         /\ rules[x[2]].camera_id = CameraId(x[1])}}

(* GET /devices/config/{device_id}: the handler depends on get_db only and
   takes no credential.  The response records the device and the
   config_list it returns. *)
get_device_config(device_ids) ==
    /\ Idle
    /\ \E device_id \in device_ids :
           LET found == device_id \in 1..Len(devices)
           IN  /\ resp' = [Resp0 EXCEPT
                               !.op = "get_device_config",
                               !.status = IF found THEN 200 ELSE 404,
                               !.target = IF found THEN DeviceId(device_id) ELSE NoId,
                               !.query = <<IF found THEN config_list(device_id)
                                           ELSE {}>>]
               /\ UNCHANGED <<requests, now, ticks, orgs, users, devices, cameras, rules,
                              violations, caps, files, session, consumed>>

(* POST /devices/provision, behind get_current_admin_user, which lets
   every request through: a new Organization and its Device, in one
   transaction; a name that is taken fails the flush *)
provision_new_device(names, device_names) ==
    /\ Idle
    /\ \E name \in names, device_name \in device_names :
           LET dup == \E o \in 1..Len(orgs) : orgs[o] = name
               org == OrgId(Len(orgs) + 1)
               device == NewDevice(org, device_name)
           IN  /\ orgs' = IF dup THEN orgs ELSE Append(orgs, name)
               /\ devices' = IF dup THEN devices ELSE Append(devices, device)
               /\ resp' = [Resp0 EXCEPT
                               !.op = "provision_new_device",
                               !.status = IF dup THEN 500 ELSE 201,
                               !.target = IF dup THEN NoId
                                          ELSE DeviceId(Len(devices) + 1),
                               !.token = IF dup THEN NoToken
                                         ELSE device.device_token_secret]
               /\ UNCHANGED <<requests, now, ticks, users, cameras, rules, violations,
                              caps, files, session, consumed>>

(* The payload holds an object_code twice: the flush of the inserts breaks
   the unique constraint _org_object_uc *)
Repeats(capabilities) ==
    \E i, j \in 1..Len(capabilities) : i < j /\ capabilities[i] = capabilities[j]

(* A sync that inserts the payload without the delete *)
delete_then_insert_kept(org_id, capabilities) ==
    caps \cup {[organization_id |-> org_id, object_code |-> capabilities[i]] :
                  i \in 1..Len(capabilities)}

(* sync_capabilities' delete statement and its inserts, committed: the
   organization_capabilities table after them *)
delete_then_insert(org_id, capabilities) ==
    {k \in caps : k.organization_id # org_id}
        \cup {[organization_id |-> org_id, object_code |-> capabilities[i]] :
                 i \in 1..Len(capabilities)}

(* A failed flush after a delete that had been committed on its own *)
failed_commit_delete_kept(org_id) == {k \in caps : k.organization_id # org_id}

(* The commit fails in its flush: the transaction, the delete with it, is
   rolled back and get_db closes the session *)
failed_commit(org_id) == caps

(* POST /devices/capabilities/sync.  The response records the payload and
   the table before the call. *)
sync_capabilities(tokens, payloads) ==
    /\ Idle
    /\ \E token \in tokens, capabilities \in payloads :
           LET current == get_current_active_user(token)
               org_id == users[current.user[2]].organization_id
               status == IF current.status # 200 THEN current.status
                         ELSE IF Repeats(capabilities) THEN 500
                         ELSE 200
           IN  /\ caps' = IF current.status # 200 THEN caps
                          ELSE IF status = 500 THEN failed_commit(org_id)
                          ELSE delete_then_insert(org_id, capabilities)
               /\ resp' = [Resp0 EXCEPT
                               !.op = "sync_capabilities", !.status = status,
                               !.presented = token, !.principal = current.user,
                               !.query = <<capabilities, caps>>]
               /\ UNCHANGED <<requests, now, ticks, orgs, users, devices, cameras, rules,
                              violations, files, session, consumed>>

(* app/routers/capabilities.py, POST /capabilities/sync: the handler reads
   payload.device_token_secret, which CapabilitySyncRequest does not have,
   and fails before it touches the table *)
capabilities_sync_capabilities(payloads) ==
    /\ Idle
    /\ \E capabilities \in payloads :
           /\ resp' = [Resp0 EXCEPT
                           !.op = "capabilities_sync_capabilities",
                           !.status = 500,
                           !.query = <<capabilities, caps>>]
           /\ UNCHANGED <<requests, now, ticks, orgs, users, devices, cameras, rules,
                          violations, caps, files, session, consumed>>

----------------------------------------------------------------------------
(* app/routers/events.py *)

MaxViolations == 2

(* The file name log_violation generates for its next upload *)
NewFile == <<"violation", Len(violations) + 1>>

(* log_violation's checks without the comparison of the organizations *)
log_violation_checks_any_camera(d, c) ==
    IF d = 0 THEN 401
    ELSE IF c = 0 THEN 404
    ELSE 201

(* log_violation's checks of the device d and the camera c the lookups
   returned (0: no row), before anything is written *)
log_violation_checks(d, c) ==
    IF d = 0 THEN 401
    ELSE IF c = 0 THEN 404
    ELSE IF cameras[c].organization_id # devices[d].organization_id THEN 403
    ELSE 201

(* The row log_violation inserts, were it filed under the first
   organization instead of the device's *)
NewViolation_unscoped(d, c, violation_type, severity) ==
    [organization_id |-> OrgId(1), camera_id |-> CameraId(c),
     timestamp_utc |-> now, violation_type |-> violation_type,
     severity |-> severity, is_false_positive |-> FALSE, is_resolved |-> FALSE,
     snapshot_url |-> NewFile]

(* The row log_violation inserts *)
NewViolation(d, c, violation_type, severity) ==
    [organization_id |-> devices[d].organization_id, camera_id |-> CameraId(c),
     timestamp_utc |-> now, violation_type |-> violation_type,
     severity |-> severity, is_false_positive |-> FALSE, is_resolved |-> FALSE,
     snapshot_url |-> NewFile]

(* A heartbeat written as soon as the device is authenticated *)
device_heartbeat_early(status, d) ==
    IF d # 0 THEN [devices EXCEPT ![d].last_heartbeat = now] ELSE devices

(* device.last_heartbeat = datetime.utcnow(), after the checks and the
   upload: the devices table after a report answered with status *)
device_heartbeat(status, d) ==
    IF status = 201 THEN [devices EXCEPT ![d].last_heartbeat = now] ELSE devices

(* POST /events/violation.  The response records the violations and the
   devices before the call. *)
log_violation(tokens, camera_ids, violation_types, severities) ==
    /\ Idle
    /\ \E device_token \in tokens, camera_id \in camera_ids,
          violation_type \in violation_types, severity \in severities :
         \E d \in First(DevicesByToken(device_token)) :
           LET c == IF camera_id \in 1..Len(cameras) THEN camera_id ELSE 0
               checked == log_violation_checks(d, c)
           IN  \E saved \in IF checked = 201 THEN BOOLEAN ELSE {TRUE} :
               LET status == IF checked = 201 /\ ~saved THEN 500 ELSE checked
               IN  /\ Len(violations) < MaxViolations
                   /\ files' = IF status = 201 THEN files \cup {NewFile} ELSE files
                   /\ violations' = IF status = 201
                                    THEN Append(violations,
                                                NewViolation(d, c, violation_type, severity))
                                    ELSE violations
                   /\ devices' = device_heartbeat(status, d)
                   /\ resp' = [Resp0 EXCEPT
                                   !.op = "log_violation", !.status = status,
                                   !.presented = device_token,
                                   !.principal = IF d = 0 THEN NoId ELSE DeviceId(d),
                                   !.camera = IF c = 0 THEN NoId ELSE CameraId(c),
                                   !.target = IF status = 201
                                              THEN ViolationId(Len(violations) + 1)
                                              ELSE NoId,
                                   !.query = <<violations, devices>>,
                                   !.body = IF status = 201 THEN NewFile ELSE NoFile]
                   /\ UNCHANGED <<requests, now, ticks, orgs, users, cameras, rules, caps,
                                  session, consumed>>

----------------------------------------------------------------------------
(* app/routers/media.py *)

(* FileResponse(path): the file served, a server error when it is absent *)
FileResponse(path) ==
    IF path \in files THEN [status |-> 200, body |-> path]
    ELSE [status |-> 500, body |-> NoFile]

(* A violation_id that is not a UUID *)
MalformedId == -1

(* select(Violation).where(Violation.id == violation_id).first(): the row,
   0 when there is none *)
ViolationById(violation_id) ==
    IF violation_id \in 1..Len(violations) THEN violation_id ELSE 0

(* get_violation_snapshot behind its guard, were the stored file served
   whether it is there or not *)
snapshot_response_unchecked(u, violation_id) ==
    LET v == ViolationById(violation_id)
    IN  IF violation_id = MalformedId THEN [status |-> 400, body |-> NoFile]
        ELSE IF v = 0 THEN [status |-> 404, body |-> NoFile]
        ELSE IF violations[v].organization_id # users[u].organization_id
             THEN [status |-> 403, body |-> NoFile]
             ELSE FileResponse(violations[v].snapshot_url)

(* get_violation_snapshot behind its guard, for the user u *)
snapshot_response(u, violation_id) ==
    LET v == ViolationById(violation_id)
    IN  IF violation_id = MalformedId THEN [status |-> 400, body |-> NoFile]
        ELSE IF v = 0 THEN [status |-> 404, body |-> NoFile]
        ELSE IF violations[v].organization_id # users[u].organization_id
             THEN [status |-> 403, body |-> NoFile]
             ELSE IF violations[v].snapshot_url \notin files
                  THEN FileResponse(Placeholder)
                  ELSE FileResponse(violations[v].snapshot_url)

(* GET /media/violation/{violation_id}/snapshot *)
get_violation_snapshot(tokens, violation_ids) ==
    /\ Idle
    /\ \E token \in tokens, violation_id \in violation_ids :
           LET current == get_current_active_user(token)
               answer == IF current.status # 200
                         THEN [status |-> current.status, body |-> NoFile]
                         ELSE snapshot_response(current.user[2], violation_id)
           IN  /\ resp' = [Resp0 EXCEPT
                               !.op = "get_violation_snapshot",
                               !.status = answer.status, !.body = answer.body,
                               !.presented = token, !.principal = current.user,
                               !.target = ViolationId(violation_id)]
               /\ UNCHANGED <<requests, now, ticks, orgs, users, devices, cameras, rules,
                              violations, caps, files, session, consumed>>

(* An evidence file disappears from the media directory *)
EvidenceLost ==
    /\ Idle
    /\ \E f \in files \ {Placeholder} :
           /\ files' = files \ {f}
           /\ UNCHANGED <<requests, now, ticks, orgs, users, devices, cameras, rules,
                          violations, caps, session, consumed, resp>>

----------------------------------------------------------------------------
(* The queries of the read endpoints.  A query runs over a database db: the
   rows, by table, that it can see. *)

(* The whole store *)
Database ==
    [users |-> 1..Len(users), devices |-> 1..Len(devices),
     cameras |-> 1..Len(cameras), rules |-> 1..Len(rules),
     violations |-> 1..Len(violations), caps |-> caps]

(* The permutations of a finite set, as sequences *)
Perms(S) ==
    {s \in [1..Cardinality(S) -> S] :
        \A i, j \in 1..Cardinality(S) : s[i] = s[j] => i = j}

(* ORDER BY key DESC LIMIT n over the rows S: the answers the database can
   give, rows of equal key in any order *)
OrderByDescLimit(S, key, n) ==
    {SubSeq(s, 1, IF n < Len(s) THEN n ELSE Len(s)) :
        s \in {p \in Perms(S) :
                  \A i, j \in 1..Cardinality(S) : i < j => key[p[i]] >= key[p[j]]}}

(* select(User).where(User.organization_id == org): list_organization_users *)
organization_users(db, org) ==
    {[id |-> UserId(i), email |-> users[i].email,
      organization_id |-> users[i].organization_id, role |-> users[i].role] :
        i \in {x \in db.users : users[x].organization_id = org}}

(* select(Device).where(Device.organization_id == org):
   list_organization_devices *)
organization_devices(db, org) ==
    {[id |-> DeviceId(d), organization_id |-> devices[d].organization_id,
      name |-> devices[d].name] :
        d \in {x \in db.devices : devices[x].organization_id = org}}

(* select(OrganizationCapability).where(organization_id == org):
   list_capabilities *)
organization_capabilities(db, org) ==
    {k.object_code : k \in {x \in db.caps : x.organization_id = org}}

(* select(Camera, CameraRule.active_rules).outerjoin(CameraRule)
   .where(Camera.organization_id == org): list_cameras *)
organization_cameras(db, org) ==
    LET joined == {<<c, r>> \in db.cameras \X (db.rules \cup {0}) :
                      /\ cameras[c].organization_id = org
                      /\ IF r = 0
                         THEN \A x \in db.rules : rules[x].camera_id # CameraId(c)
                         ELSE rules[r].camera_id = CameraId(c)}
    IN  {[id |-> CameraId(row[1]), name |-> cameras[row[1]].name,
          location |-> cameras[row[1]].location,
          rtsp_url |-> cameras[row[1]].rtsp_url,
          status |-> cameras[row[1]].status,
          active_rules |-> IF row[2] = 0 THEN {} ELSE rules[row[2]].active_rules] :
            row \in joined}

(* One row of get_violation_logs: the violation with its camera's name *)
ViolationResponse(v) ==
    [id |-> ViolationId(v), organization_id |-> violations[v].organization_id,
     camera_id |-> violations[v].camera_id,
     timestamp_utc |-> violations[v].timestamp_utc,
     violation_type |-> violations[v].violation_type,
     severity |-> violations[v].severity,
     snapshot_url |-> violations[v].snapshot_url,
     is_resolved |-> violations[v].is_resolved,
     is_false_positive |-> violations[v].is_false_positive,
     camera_name |-> cameras[violations[v].camera_id[2]].name,
     room_name |-> cameras[violations[v].camera_id[2]].name]

(* select(Violation, Camera.name).join(Camera)
   .where(Violation.organization_id == org)
   .order_by(timestamp_utc.desc()).limit(limit), with every organization's
   rows *)
violation_logs_unfiltered(db, org, limit) ==
    LET rows == {ViolationResponse(v) :
                    v \in {x \in db.violations :
                              violations[x].camera_id[2] \in db.cameras}}
        key == [row \in rows |-> row.timestamp_utc]
    IN  OrderByDescLimit(rows, key, limit)

(* select(Violation, Camera.name).join(Camera)
   .where(Violation.organization_id == org)
   .order_by(timestamp_utc.desc()).limit(limit): get_violation_logs *)
violation_logs(db, org, limit) ==
    LET rows == {ViolationResponse(v) :
                    v \in {x \in db.violations :
                              /\ violations[x].camera_id[2] \in db.cameras
                              /\ violations[x].organization_id = org}}
        key == [row \in rows |-> row.timestamp_utc]
    IN  OrderByDescLimit(rows, key, limit)

(* The calendar.  Time 0 is 2024-01-01 00:00 UTC. *)
EpochYear == 2024
MinutesPerDay == 24 * 60

IsLeap(year) == year % 4 = 0 /\ (year % 100 # 0 \/ year % 400 = 0)

(* calendar.monthrange without leap years *)
DaysIn_no_leap(year, month) ==
    IF month = 2 THEN 28
    ELSE IF month \in {4, 6, 9, 11} THEN 30 ELSE 31

(* calendar.monthrange(year, month)[1] *)
DaysIn(year, month) ==
    IF month = 2 THEN (IF IsLeap(year) THEN 29 ELSE 28)
    ELSE IF month \in {4, 6, 9, 11} THEN 30 ELSE 31

(* The days from 2024-01-01 to the first day of a month *)
RECURSIVE DaysTo(_, _)
DaysTo(year, month) ==
    IF year = EpochYear /\ month = 1 THEN 0
    ELSE IF year >= EpochYear
         THEN IF month = 1 THEN DaysTo(year - 1, 12) + DaysIn(year - 1, 12)
              ELSE DaysTo(year, month - 1) + DaysIn(year, month - 1)
         ELSE IF month = 12 THEN DaysTo(year + 1, 1) - DaysIn(year, 12)
              ELSE DaysTo(year, month + 1) - DaysIn(year, month)

(* datetime(year, month, day, 0, 0), in minutes *)
Midnight(year, month, day) == (DaysTo(year, month) + day - 1) * MinutesPerDay

(* A severity as stored, not lowered *)
LowerSeverity_raw(severity) == severity

(* str.lower() on a severity *)
LowerSeverity(severity) ==
    CASE severity = "Critical" -> "critical"
      [] severity = "High" -> "high"
      [] severity = "Medium" -> "medium"
      [] severity = "Low" -> "low"
      [] OTHER -> severity

(* f"false_{sev}" *)
FalseKey(sev) ==
    CASE sev = "critical" -> "false_critical"
      [] sev = "high" -> "false_high"
      [] sev = "medium" -> "false_medium"
      [] sev = "low" -> "false_low"
      [] OTHER -> "false_other"

(* The counters a trend loop builds from the grouped rows of one bucket:
   the totals, one counter per violation type of the valid rows, one per
   severity of the false positives *)
BucketCounters(rows, total_key) ==
    LET valid == {v \in rows : ~violations[v].is_false_positive}
        false == {v \in rows : violations[v].is_false_positive}
        keys == {total_key, "total_false"}
                    \cup {violations[v].violation_type : v \in valid}
                    \cup {FalseKey(LowerSeverity(violations[v].severity)) : v \in false}
    IN  [k \in keys |->
            (IF k = total_key THEN Cardinality(valid) ELSE 0)
          + (IF k = "total_false" THEN Cardinality(false) ELSE 0)
          + Cardinality({v \in valid : violations[v].violation_type = k})
          + Cardinality({v \in false :
                            FalseKey(LowerSeverity(violations[v].severity)) = k})]

(* where(and_(org_filter, date_filter)) *)
ViolationsIn(db, org, utc_start, utc_end) ==
    {v \in db.violations :
        /\ violations[v].organization_id = org
        /\ violations[v].timestamp_utc >= utc_start
        /\ violations[v].timestamp_utc <= utc_end}

(* select(Camera.location, count).join(Violation).where(org, date, not
   false positive).group_by(Camera.location).order_by(desc(count)).limit(5) *)
room_stats(db, org, utc_start, utc_end) ==
    LET rows == {v \in ViolationsIn(db, org, utc_start, utc_end) :
                    /\ ~violations[v].is_false_positive
                    /\ violations[v].camera_id[2] \in db.cameras}
        location(v) == cameras[violations[v].camera_id[2]].location
        groups == {[room |-> IF l = "none" THEN "Unknown" ELSE l,
                    violations |-> Cardinality({v \in rows : location(v) = l})] :
                      l \in {location(v) : v \in rows}}
        key == [group \in groups |-> group.violations]
    IN  OrderByDescLimit(groups, key, 5)

(* round(resolved / total, 1), without the percent *)
resolution_rate_fraction(resolved, total) ==
    IF total > 0 THEN (20 * resolved + total) \div (2 * total) ELSE 0

(* round(resolved / total * 100, 1) if total > 0 else 0, in tenths of a
   percent; round() takes a value half-way between two tenths to the even
   one *)
resolution_rate(resolved, total) ==
    IF total > 0
    THEN LET tenths == (1000 * resolved) \div total
             rest == (1000 * resolved) % total
         IN  IF 2 * rest < total THEN tenths
             ELSE IF 2 * rest > total THEN tenths + 1
             ELSE IF tenths % 2 = 0 THEN tenths ELSE tenths + 1
    ELSE 0

(* get_dashboard_stats with the trend grouped by the UTC day of the rows *)
dashboard_stats_utc_days(db, org, month, year, timezone_offset) ==
    LET last_day == DaysIn(year, month)
        local_start == Midnight(year, month, 1)
        local_end == Midnight(year, month, last_day) + MinutesPerDay - 1
        utc_start == local_start - timezone_offset
        utc_end == local_end - timezone_offset
        rows == ViolationsIn(db, org, utc_start, utc_end)
        total == Cardinality(rows)
        resolved == Cardinality({v \in rows : violations[v].is_resolved})
        false_pos == Cardinality({v \in rows : violations[v].is_false_positive})
        day(v) == ((violations[v].timestamp_utc - local_start)
                      \div MinutesPerDay) + 1
        trend == [d \in 1..last_day |->
                     [day |-> <<d, month>>, full_date |-> <<year, month, d>>,
                      counters |-> BucketCounters({v \in rows : day(v) = d},
                                                  "total_valid")]]
    IN  {[stats |-> [total_valid_violations |-> total - false_pos,
                     total_false_positives |-> false_pos,
                     resolution_rate |-> resolution_rate(resolved, total)],
          trend_data |-> trend,
          room_data |-> room_data] :
            room_data \in room_stats(db, org, utc_start, utc_end)}

(* get_dashboard_stats behind its guard: the KPI of the month, the trend by
   local day, and the five rooms with most valid violations.  The date
   filter keeps the rows whose local time lies in the month, so the day
   label "%d %b" of a row is the label of its day of this month. *)
dashboard_stats(db, org, month, year, timezone_offset) ==
    LET last_day == DaysIn(year, month)
        local_start == Midnight(year, month, 1)
        local_end == Midnight(year, month, last_day) + MinutesPerDay - 1
        utc_start == local_start - timezone_offset
        utc_end == local_end - timezone_offset
        rows == ViolationsIn(db, org, utc_start, utc_end)
        total == Cardinality(rows)
        resolved == Cardinality({v \in rows : violations[v].is_resolved})
        false_pos == Cardinality({v \in rows : violations[v].is_false_positive})
        day(v) == ((violations[v].timestamp_utc + timezone_offset - local_start)
                      \div MinutesPerDay) + 1
        trend == [d \in 1..last_day |->
                     [day |-> <<d, month>>, full_date |-> <<year, month, d>>,
                      counters |-> BucketCounters({v \in rows : day(v) = d},
                                                  "total_valid")]]
    IN  {[stats |-> [total_valid_violations |-> total - false_pos,
                     total_false_positives |-> false_pos,
                     resolution_rate |-> resolution_rate(resolved, total)],
          trend_data |-> trend,
          room_data |-> room_data] :
            room_data \in room_stats(db, org, utc_start, utc_end)}

(* strftime("%I%p").lstrip("0") and strftime("%I:%M %p"): the 12-hour clock *)
Hour12(h) == IF h % 12 = 0 THEN 12 ELSE h % 12
Meridiem(h) == IF h < 12 THEN "AM" ELSE "PM"

(* One entry of get_day_details' list of violations *)
DayDetail(v, timezone_offset) ==
    LET camera == cameras[violations[v].camera_id[2]]
        room_name == IF camera.location = "none" THEN "Unknown Location"
                     ELSE camera.location
        local_time == (violations[v].timestamp_utc + timezone_offset) % MinutesPerDay
    IN  [id |-> ViolationId(v), type |-> violations[v].violation_type,
         severity |-> LowerSeverity(violations[v].severity),
         timestamp |-> <<Hour12(local_time \div 60), local_time % 60,
                         Meridiem(local_time \div 60)>>,
         cameraName |-> camera.name, roomName |-> room_name,
         imageUrl |-> violations[v].snapshot_url,
         description |-> <<violations[v].violation_type, room_name>>,
         is_false_positive |-> violations[v].is_false_positive]

(* datetime.strptime(date_str, "%Y-%m-%d") succeeds *)
ValidDate(date) ==
    /\ date[1] >= 1
    /\ date[2] \in 1..12
    /\ date[3] \in 1..DaysIn(date[1], date[2])

(* get_day_details behind its guard, for a valid date: the counts of the
   day, the trend by local hour, the violations of the day, newest first,
   and the five rooms with most valid violations *)
day_details(db, org, date, timezone_offset) ==
    LET local_start == Midnight(date[1], date[2], date[3])
        local_end == local_start + MinutesPerDay - 1
        utc_start == local_start - timezone_offset
        utc_end == local_end - timezone_offset
        rows == ViolationsIn(db, org, utc_start, utc_end)
        hour(v) == ((violations[v].timestamp_utc + timezone_offset) % MinutesPerDay)
                       \div 60
        hourly == [h \in 0..23 |->
                      [hour |-> <<Hour12(h), Meridiem(h)>>, raw_hour |-> h,
                       counters |-> BucketCounters({v \in rows : hour(v) = h},
                                                   "total_violations")]]
        listed == {v \in rows : violations[v].camera_id[2] \in db.cameras}
        key == [v \in listed |-> violations[v].timestamp_utc]
    IN  {[date |-> date,
          stats |-> [total |-> Cardinality(listed),
                     critical |-> Cardinality({v \in listed :
                                     violations[v].severity = "Critical"}),
                     high |-> Cardinality({v \in listed :
                                     violations[v].severity = "High"})],
          hourly_data |-> hourly,
          violations |-> [i \in 1..Len(raw_list) |->
                             DayDetail(raw_list[i], timezone_offset)],
          room_data |-> room_data] :
            raw_list \in OrderByDescLimit(listed, key, Cardinality(listed)),
            room_data \in room_stats(db, org, utc_start, utc_end)}

(* The answers a read handler can give to a user of an organization, on the
   rows db of the store: the query of the handler, with the parameters of
   the request *)
ReadResults(op, db, org, query) ==
    CASE op = "get_violation_logs" -> violation_logs(db, org, query[1])
      [] op = "get_dashboard_stats" ->
             dashboard_stats(db, org, query[1][2], query[1][1], query[2])
      [] op = "get_day_details" -> day_details(db, org, query[1], query[2])
      [] op = "list_cameras" -> {organization_cameras(db, org)}
      [] op = "list_organization_devices" -> {organization_devices(db, org)}
      [] op = "list_organization_users" -> {organization_users(db, org)}
      [] op = "list_capabilities" -> {organization_capabilities(db, org)}

(* A read endpoint behind the user guard: it answers with one of the
   results its query can give on the organization of the token's user *)
ReadEndpoint(op, tokens, queries) ==
    /\ Idle
    /\ \E token \in tokens, query \in queries :
           LET current == get_current_active_user(token)
           IN  \E body \in IF current.status = 200
                           THEN ReadResults(op, Database,
                                            users[current.user[2]].organization_id,
                                            query)
                           ELSE {NoFile} :
               /\ resp' = [Resp0 EXCEPT
                               !.op = op, !.status = current.status,
                               !.presented = token, !.principal = current.user,
                               !.query = query, !.body = body]
               /\ UNCHANGED <<requests, now, ticks, orgs, users, devices, cameras, rules,
                              violations, caps, files, session, consumed>>

(* GET /events/violations *)
get_violation_logs(tokens, limits) ==
    ReadEndpoint("get_violation_logs", tokens, {<<l>> : l \in limits})

(* GET /analytics/dashboard-stats *)
get_dashboard_stats(tokens, months, offsets) ==
    ReadEndpoint("get_dashboard_stats", tokens, months \X offsets)

(* GET /analytics/day-details: 400 for a date_str that is no date *)
get_day_details(tokens, dates, offsets) ==
    /\ Idle
    /\ \E token \in tokens, query \in dates \X offsets :
           LET current == get_current_active_user(token)
               status == IF current.status # 200 THEN current.status
                         ELSE IF ~ValidDate(query[1]) THEN 400
                         ELSE 200
           IN  \E body \in IF status = 200
                           THEN ReadResults("get_day_details", Database,
                                            users[current.user[2]].organization_id,
                                            query)
                           ELSE {NoFile} :
               /\ resp' = [Resp0 EXCEPT
                               !.op = "get_day_details", !.status = status,
                               !.presented = token, !.principal = current.user,
                               !.query = query, !.body = body]
               /\ UNCHANGED <<requests, now, ticks, orgs, users, devices, cameras, rules,
                              violations, caps, files, session, consumed>>

(* GET /auth/users/list *)
list_organization_users(tokens) ==
    ReadEndpoint("list_organization_users", tokens, {<<>>})

(* GET /devices/list *)
list_organization_devices(tokens) ==
    ReadEndpoint("list_organization_devices", tokens, {<<>>})

(* GET /capabilities/ *)
list_capabilities(tokens) ==
    ReadEndpoint("list_capabilities", tokens, {<<>>})

(* GET /cameras/ *)
list_cameras(tokens) ==
    ReadEndpoint("list_cameras", tokens, {<<>>})

----------------------------------------------------------------------------
(* The clock *)

Tick(steps, max) ==
    /\ Idle
    /\ \E d \in steps :
           /\ ticks < max
           /\ now' = now + d
           /\ ticks' = ticks + 1
           /\ UNCHANGED <<requests, resp, orgs, users, devices, cameras, rules, violations,
                          caps, files, session, consumed>>

----------------------------------------------------------------------------
(* The authentication service *)

Emails == {"a@x", "A@x"}
Passwords == {"pw1", "pw2"}
OrgNames == {"acme", "apex"}
AuthSteps == {OtpExpireMinutes, ACCESS_TOKEN_EXPIRE_MINUTES}

Init ==
    /\ now = 0
    /\ ticks = 0
    /\ orgs = <<>>
    /\ users = <<>>
    /\ devices = <<>>
    /\ cameras = <<>>
    /\ rules = <<>>
    /\ violations = <<>>
    /\ caps = {}
    /\ files = {Placeholder}
    /\ session = <<>>
    /\ consumed = <<>>
    /\ resp = Resp0
    /\ requests = <<>>

Next ==
    \/ Tick(AuthSteps, MaxTicks)
    \/ register_organization(OrgNames, Emails, {"pw1"})
    \/ login_for_access_token(Emails, Passwords)
    \/ verify_2fa_code(Emails)
    \/ toggle_2fa
    \/ read_users_me
    \/ Return

Spec == Init /\ [][Next]_vars

----------------------------------------------------------------------------
(* The tenants: two organizations, their users, devices, cameras and
   violations *)

Urls == {"rtsp://1"}
CameraLists == {<<>>} \cup {<<u>> : u \in Urls}
RepeatingLists == CameraLists \cup {<<u, u>> : u \in Urls}
TenantSteps == {DeviceExpireMinutes + 1}

(* Two organizations have registered, "acme" with the admin "a@x" and "apex"
   with the admin "b@x": the state after these two register_organization
   calls at time 0 *)
InitTenant ==
    /\ now = 0
    /\ ticks = 0
    /\ orgs = <<"acme", "apex">>
    /\ users = <<[organization_id |-> OrgId(1), email |-> "a@x",
                  password_hash |-> get_password_hash("pw1"),
                  role |-> "GlobalAdmin", is_active |-> TRUE,
                  is_2fa_enabled |-> FALSE, otp_hash |-> NoHash,
                  otp_expires_at |-> NoTime],
                 [organization_id |-> OrgId(2), email |-> "b@x",
                  password_hash |-> get_password_hash("pw1"),
                  role |-> "GlobalAdmin", is_active |-> TRUE,
                  is_2fa_enabled |-> FALSE, otp_hash |-> NoHash,
                  otp_expires_at |-> NoTime]>>
    /\ devices = <<[organization_id |-> OrgId(1), name |-> "edge",
                    device_token_secret |->
                        [sub |-> DeviceId(1), type |-> "device",
                         exp |-> DeviceExpireMinutes, sig |-> TRUE],
                    last_heartbeat |-> NoTime],
                   [organization_id |-> OrgId(2), name |-> "edge",
                    device_token_secret |->
                        [sub |-> DeviceId(2), type |-> "device",
                         exp |-> DeviceExpireMinutes, sig |-> TRUE],
                    last_heartbeat |-> NoTime]>>
    /\ cameras = <<>>
    /\ rules = <<>>
    /\ violations = <<>>
    /\ caps = {}
    /\ files = {Placeholder}
    /\ session = <<NoToken, NoToken>>
    /\ consumed = <<NoCode, NoCode>>
    /\ resp = Resp0
    /\ requests = <<>>

(* What a client of these tenants can present: the tokens handed out *)
TenantTokens == HeldTokens

(* The device service: authentication of devices, camera registration and
   violation ingestion, over more than the life of a device token *)
NextDevice ==
    \/ Tick(TenantSteps, MaxEpochs)
    \/ login_for_access_token({"a@x", "b@x"}, {"pw1"})
    \/ handshake(TenantTokens, {"edge"}, RepeatingLists)
    \/ sync_capabilities(TenantTokens, {<<>>, <<"helmet">>})
    \/ log_violation(TenantTokens, 1..(Len(cameras) + 1), {"no_helmet"},
                     {"Critical"})
    \/ Return

SpecDevice == InitTenant /\ [][NextDevice]_vars

(* The tokens of the users' sessions *)
SessionTokens == {session[i] : i \in 1..Len(users)} \ {NoToken}

(* What the dashboard asks for: the months around time 0, their days, a
   date_str that is no date, and the clients' timezone offsets *)
Months == {<<2023, 12>>, <<2024, 1>>}
Dates == {<<2023, 12, 31>>, <<2024, 1, 1>>, <<2024, 2, 30>>}
Offsets == {0 - 60, 0, 300}

(* The dashboard: what the users of the two organizations read *)
NextRead ==
    \/ login_for_access_token({"a@x", "b@x"}, {"pw1"})
    \/ handshake(TenantTokens, {"edge"}, CameraLists)
    \/ sync_capabilities(SessionTokens, {<<>>, <<"helmet">>})
    \/ log_violation(TenantTokens, 1..(Len(cameras) + 1), {"no_helmet"},
                     {"Critical"})
    \/ get_violation_snapshot(TenantTokens,
                              {MalformedId} \cup 1..(Len(violations) + 1))
    \/ EvidenceLost
    \/ list_organization_users(SessionTokens)
    \/ list_organization_devices(SessionTokens)
    \/ list_capabilities(SessionTokens)
    \/ list_cameras(SessionTokens)
    \/ get_violation_logs(SessionTokens, {1, 20})
    \/ get_dashboard_stats(SessionTokens, Months, Offsets)
    \/ get_day_details(SessionTokens, Dates, Offsets)
    \/ Return

SpecRead == InitTenant /\ [][NextRead]_vars

----------------------------------------------------------------------------
(* The administration: the users of an organization and its cameras *)

(* create_new_user: the organization of the new row, from the caller *)
created_organization_id_from_body(current_user, organization_id) ==
    IF organization_id # NoId THEN organization_id
    ELSE users[current_user].organization_id

(* create_new_user: organization_id=current_user.organization_id *)
created_organization_id(current_user, organization_id) ==
    users[current_user].organization_id

(* POST /auth/users/create.  The request body may carry an organization_id;
   the response records it with the number of users before the call. *)
create_new_user(tokens, emails, passwords, roles, organization_ids) ==
    /\ Idle
    /\ \E token \in tokens, email \in emails, password \in passwords,
          role \in roles, organization_id \in organization_ids :
           LET current == get_current_active_user(token)
               caller == current.user[2]
               matching == UsersByEmail(Lower(email))
               status == IF current.status # 200 THEN current.status
                         ELSE IF users[caller].role # "GlobalAdmin" THEN 403
                         ELSE IF Cardinality(matching) = 1 THEN 400
                         ELSE IF Cardinality(matching) > 1 THEN 500
                         ELSE 201
               new_user == NewUser(created_organization_id(caller, organization_id),
                                   Lower(email), password, role)
           IN  /\ users' = IF status = 201 THEN Append(users, new_user) ELSE users
               /\ session' = IF status = 201 THEN Append(session, NoToken) ELSE session
               /\ consumed' = IF status = 201 THEN Append(consumed, NoCode)
                              ELSE consumed
               /\ resp' = [Resp0 EXCEPT
                               !.op = "create_new_user", !.status = status,
                               !.presented = token, !.principal = current.user,
                               !.email = email, !.secret = password,
                               !.query = <<organization_id, Len(users)>>,
                               !.target = IF status = 201 THEN UserId(Len(users) + 1)
                                          ELSE NoId]
               /\ UNCHANGED <<requests, now, ticks, orgs, devices, cameras, rules,
                              violations, caps, files>>

(* POST /config/rules: after the role check the handler reads
   rules_data.device_id, which CameraRuleUpdate does not have, and fails;
   the response records the rules before the call *)
update_camera_rules(tokens) ==
    /\ Idle
    /\ \E token \in tokens :
           LET current == get_current_active_user(token)
               status == IF current.status # 200 THEN current.status
                         ELSE IF users[current.user[2]].role
                                     \notin {"GlobalAdmin", "Supervisor"} THEN 403
                         ELSE 500
           IN  /\ resp' = [Resp0 EXCEPT
                               !.op = "update_camera_rules", !.status = status,
                               !.presented = token, !.principal = current.user,
                               !.query = <<NoId, rules>>]
               /\ UNCHANGED <<requests, now, ticks, orgs, users, devices, cameras, rules,
                              violations, caps, files, session, consumed>>

(* CameraUpdate.active_rules = None *)
NoRules == {"none"}

(* The CameraRule rows of a camera *)
RulesByCamera(c) == {r \in 1..Len(rules) : rules[r].camera_id = CameraId(c)}

(* PUT /cameras/{camera_id}: the location and the rules of a camera of the
   caller's organization; the response records the rules before the call *)
update_camera(tokens, camera_ids, locations, rule_sets) ==
    /\ Idle
    /\ \E token \in tokens, camera_id \in camera_ids, location \in locations,
          active_rules \in rule_sets :
         LET current == get_current_active_user(token)
             found == current.status = 200
                      /\ camera_id \in 1..Len(cameras)
                      /\ cameras[camera_id].organization_id
                             = users[current.user[2]].organization_id
             status == IF current.status # 200 THEN current.status
                       ELSE IF ~found THEN 404 ELSE 200
             written == found /\ active_rules # NoRules
         IN  \E r \in First(IF written THEN RulesByCamera(camera_id) ELSE {}) :
               /\ cameras' = IF found /\ location # "none"
                             THEN [cameras EXCEPT ![camera_id].location = location]
                             ELSE cameras
               /\ rules' = IF ~written THEN rules
                           ELSE IF r # 0
                                THEN [rules EXCEPT ![r].active_rules = active_rules]
                                ELSE Append(rules,
                                            [NewCameraRule(CameraId(camera_id))
                                                EXCEPT !.active_rules = active_rules])
               /\ resp' = [Resp0 EXCEPT
                               !.op = "update_camera", !.status = status,
                               !.presented = token, !.principal = current.user,
                               !.camera = IF found THEN CameraId(camera_id) ELSE NoId,
                               !.query = <<active_rules, rules>>]
               /\ UNCHANGED <<requests, now, ticks, orgs, users, devices, violations, caps,
                              files, session, consumed>>

(* What the administration is asked: a new e-mail and one that is taken,
   a privileged role and one that is not, an organization_id in the body *)
NewEmails == {"c@x", "a@x"}
NewRoles == {"Supervisor", "Viewer"}
DeviceTokens == {devices[d].device_token_secret : d \in 1..Len(devices)}

NextAdmin ==
    \/ login_for_access_token({"a@x", "b@x", "c@x"}, {"pw1"})
    \/ create_new_user(SessionTokens, NewEmails, {"pw1"}, NewRoles,
                       {NoId} \cup {OrgId(o) : o \in 1..Len(orgs)})
    \/ handshake(DeviceTokens, {"edge"}, CameraLists)
    \/ update_camera_rules(SessionTokens)
    \/ get_device_config(1..(Len(devices) + 1))
    \/ update_camera(SessionTokens, 1..(Len(cameras) + 1), {"none"},
                     {NoRules, {"helmet"}})
    \/ Return

SpecAdmin == InitTenant /\ [][NextAdmin]_vars

----------------------------------------------------------------------------
(* The capability catalog: what the edge models of the two organizations
   register *)

(* The payloads: lists of distinct codes and lists that repeat one *)
CapabilityLists ==
    {<<>>, <<"helmet">>, <<"vest">>, <<"helmet", "vest">>,
     <<"helmet", "helmet">>, <<"vest", "helmet", "vest">>}

NextCatalog ==
    \/ login_for_access_token({"a@x", "b@x"}, {"pw1"})
    \/ sync_capabilities(SessionTokens \cup DeviceTokens, CapabilityLists)
    \/ capabilities_sync_capabilities(CapabilityLists)
    \/ list_capabilities(SessionTokens)
    \/ Return

SpecCatalog == InitTenant /\ [][NextCatalog]_vars

----------------------------------------------------------------------------
(* The trend of reported violations: devices report, users read the month *)

(* The violation_type form field is any string: a class name of the edge
   model, or the name of a counter of the day buckets *)
ViolationTypes == {"no_helmet", "total_valid"}

NextTrend ==
    \/ login_for_access_token({"a@x", "b@x"}, {"pw1"})
    \/ handshake(DeviceTokens, {"edge"}, CameraLists)
    \/ log_violation(DeviceTokens, 1..Len(cameras), ViolationTypes,
                     {"Critical"})
    \/ get_dashboard_stats(SessionTokens, Months, Offsets)
    \/ Return

SpecTrend == InitTenant /\ [][NextTrend]_vars

----------------------------------------------------------------------------
(* Requests served concurrently.  Every request has its own session
   (get_db); a handler runs up to an await, where the handlers of other
   requests run.  A request is modelled by two steps: the select that loads
   its rows into the session, and the rest of the handler up to the commit,
   which works on the rows as they were loaded. *)

MaxRequests == 3

(* No row was loaded *)
NoRow ==
    [organization_id |-> NoId, email |-> "none", password_hash |-> NoHash,
     role |-> "none", is_active |-> FALSE, is_2fa_enabled |-> FALSE,
     otp_hash |-> NoHash, otp_expires_at |-> NoTime]

(* A request: what it was sent, the row its select loaded (row = 0: none),
   the row its check for an existing one found (existing = 0: none), and,
   once done, what it answered and the code it has drawn.  selected_at
   and committed_at order the selects and commits of all requests. *)
Request0 ==
    [op |-> "none", pc |-> "selected", email |-> "none", secret |-> "none",
     name |-> "none", caller |-> 0, row |-> 0, loaded |-> NoRow,
     existing |-> 0,
     status |-> 0, token |-> NoToken, code |-> NoCode,
     selected_at |-> 0, committed_at |-> 0]

Done == {r \in 1..Len(requests) : requests[r].pc = "done"}

(* The position of the next select or commit among all of them *)
Stamp == Len(requests) + Cardinality(Done) + 1

(* login_for_access_token up to its select(User) *)
login_select(emails, passwords) ==
    /\ Idle
    /\ Len(requests) < MaxRequests
    /\ \E email \in emails, password \in passwords :
         \E i \in First(UsersByEmail(Lower(email))) :
           /\ requests' = Append(requests,
                  [Request0 EXCEPT
                      !.op = "login", !.email = email, !.secret = password,
                      !.row = i, !.loaded = IF i = 0 THEN NoRow ELSE users[i],
                      !.selected_at = Stamp])
           /\ UNCHANGED <<now, ticks, orgs, users, devices, cameras, rules,
                          violations, caps, files, session, consumed, resp>>

(* A login that leaves a pending challenge as it is *)
store_otp_if_none(user, otp) ==
    IF user.otp_hash # NoHash THEN user
    ELSE [user EXCEPT !.otp_hash = get_password_hash(otp),
                      !.otp_expires_at = now + OtpExpireMinutes]

(* user.otp_hash = get_password_hash(otp); user.otp_expires_at = ...;
   db.commit(): the UPDATE of the two columns on the row as it is now *)
store_otp(user, otp) ==
    [user EXCEPT !.otp_hash = get_password_hash(otp),
                 !.otp_expires_at = now + OtpExpireMinutes]

(* login_for_access_token from the credential check on *)
login_commit ==
    /\ Idle
    /\ \E r \in 1..Len(requests) :
         /\ requests[r].op = "login"
         /\ requests[r].pc = "selected"
         /\ LET request == requests[r]
                user == request.loaded
                rejected == \/ request.row = 0
                            \/ ~user.is_active
                            \/ ~verify_password(request.secret, user.password_hash)
                two_factor == ~rejected /\ user.is_2fa_enabled
            IN  \E otp \in IF two_factor THEN generate_otp_code ELSE {NoCode},
                   mail_sent \in IF two_factor THEN BOOLEAN ELSE {TRUE} :
                  /\ users' = IF two_factor
                              THEN [users EXCEPT
                                      ![request.row] = store_otp(users[request.row], otp)]
                              ELSE users
                  /\ requests' = [requests EXCEPT ![r] =
                         [request EXCEPT
                             !.pc = "done",
                             !.status = IF rejected THEN 401
                                        ELSE IF two_factor /\ ~mail_sent THEN 500
                                        ELSE 200,
                             !.code = otp,
                             !.token = IF ~rejected /\ ~two_factor
                                       THEN create_access_token(
                                                UserId(request.row), "user",
                                                ACCESS_TOKEN_EXPIRE_MINUTES)
                                       ELSE NoToken,
                             !.committed_at = Stamp]]
         /\ UNCHANGED <<now, ticks, orgs, devices, cameras, rules, violations,
                        caps, files, session, consumed, resp>>

(* verify_2fa_code up to its select(User) *)
verify_2fa_select(emails, otp_codes) ==
    /\ Idle
    /\ Len(requests) < MaxRequests
    /\ \E email \in emails, otp_code \in otp_codes :
         \E i \in First(UsersByEmail(Lower(email))) :
           /\ requests' = Append(requests,
                  [Request0 EXCEPT
                      !.op = "verify_2fa", !.email = email, !.secret = otp_code,
                      !.row = i, !.loaded = IF i = 0 THEN NoRow ELSE users[i],
                      !.selected_at = Stamp])
           /\ UNCHANGED <<now, ticks, orgs, users, devices, cameras, rules,
                          violations, caps, files, session, consumed, resp>>

(* verify_2fa_code's checks on the row its session has loaded *)
verify_2fa_loaded(request) ==
    IF request.row = 0 THEN 400
    ELSE IF request.loaded.otp_hash = NoHash
            \/ request.loaded.otp_expires_at = NoTime THEN 400
    ELSE IF now > request.loaded.otp_expires_at THEN 400
    ELSE IF ~verify_password(request.secret, request.loaded.otp_hash) THEN 400
    ELSE 200

(* verify_2fa_code from its checks on: the UPDATE that clears the OTP
   columns carries no condition on what they hold *)
verify_2fa_commit ==
    /\ Idle
    /\ \E r \in 1..Len(requests) :
         /\ requests[r].op = "verify_2fa"
         /\ requests[r].pc = "selected"
         /\ LET request == requests[r]
                status == verify_2fa_loaded(request)
            IN  /\ users' = IF status = 200
                            THEN [users EXCEPT
                                    ![request.row] = clear_otp(users[request.row])]
                            ELSE users
                /\ requests' = [requests EXCEPT ![r] =
                       [request EXCEPT
                           !.pc = "done", !.status = status,
                           !.token = IF status = 200
                                     THEN create_access_token(
                                              UserId(request.row), "user",
                                              ACCESS_TOKEN_EXPIRE_MINUTES)
                                     ELSE NoToken,
                           !.committed_at = Stamp]]
         /\ UNCHANGED <<now, ticks, orgs, devices, cameras, rules, violations,
                        caps, files, session, consumed, resp>>

(* handshake with one camera, up to the select(Camera) of its loop: the
   device and the camera of the device with the reported rtsp_url.  An
   unknown token is answered at once. *)
handshake_select(tokens, hostnames, urls) ==
    /\ Idle
    /\ Len(requests) < MaxRequests
    /\ \E device_token_secret \in tokens, hostname \in hostnames, url \in urls :
         \E d \in First(DevicesByToken(device_token_secret)) :
           \E c \in First({x \in 1..Len(cameras) :
                              /\ d # 0
                              /\ cameras[x].device_id = DeviceId(d)
                              /\ cameras[x].rtsp_url = url}) :
             /\ requests' = Append(requests,
                    [Request0 EXCEPT
                        !.op = "handshake", !.name = hostname, !.secret = url,
                        !.row = d, !.existing = c,
                        !.pc = IF d = 0 THEN "done" ELSE "selected",
                        !.status = IF d = 0 THEN 403 ELSE 0,
                        !.selected_at = Stamp])
             /\ UNCHANGED <<now, ticks, orgs, users, devices, cameras, rules,
                            violations, caps, files, session, consumed, resp>>

(* handshake from the branch on existing_camera to the final commit: the
   camera found is set Online; when none was found a Camera and its
   CameraRule are inserted, whatever rows the table holds by now *)
handshake_commit ==
    /\ Idle
    /\ \E r \in 1..Len(requests) :
         /\ requests[r].op = "handshake"
         /\ requests[r].pc = "selected"
         /\ LET request == requests[r]
                d == request.row
            IN  /\ devices' = [devices EXCEPT ![d].last_heartbeat = now,
                                              ![d].name = request.name]
                /\ cameras' = IF request.existing # 0
                              THEN [cameras EXCEPT
                                      ![request.existing].status = "Online"]
                              ELSE Append(cameras, NewCamera(d, request.secret))
                /\ rules' = IF request.existing # 0 THEN rules
                            ELSE Append(rules,
                                        NewCameraRule(CameraId(Len(cameras) + 1)))
                /\ requests' = [requests EXCEPT ![r] =
                       [request EXCEPT !.pc = "done", !.status = 200,
                                       !.committed_at = Stamp]]
         /\ UNCHANGED <<now, ticks, orgs, users, violations, caps, files,
                        session, consumed, resp>>

(* The streams the devices report, and a token no device has *)
StreamUrls == {"rtsp://1", "rtsp://2"}

(* Handshakes of the devices of the two organizations, interleaved *)
NextHandshakeRace ==
    \/ handshake_select(DeviceTokens \cup {NoToken}, {"edge"}, StreamUrls)
    \/ handshake_commit

SpecHandshakeRace == InitTenant /\ [][NextHandshakeRace]_vars

(* scalar_one_or_none() on the users with an e-mail: the status the
   handler answers at once, 0 when it goes on *)
email_taken(email) ==
    IF Cardinality(UsersByEmail(email)) = 1 THEN 400
    ELSE IF Cardinality(UsersByEmail(email)) > 1 THEN 500
    ELSE 0

(* uix_user_email_org: a user of the organization holds the e-mail *)
EmailInOrganization(email, org, except) ==
    \E u \in 1..Len(users) :
        /\ u # except
        /\ users[u].email = email
        /\ users[u].organization_id = org

(* register_organization up to its check that no user has admin_email *)
register_organization_select(names, emails, passwords) ==
    /\ Idle
    /\ Len(requests) < MaxRequests
    /\ \E name \in names, email \in emails, password \in passwords :
           /\ requests' = Append(requests,
                  [Request0 EXCEPT
                      !.op = "register_organization", !.name = name,
                      !.email = email, !.secret = password,
                      !.pc = IF email_taken(email) # 0 THEN "done" ELSE "selected",
                      !.status = email_taken(email),
                      !.selected_at = Stamp])
           /\ UNCHANGED <<now, ticks, orgs, users, devices, cameras, rules,
                          violations, caps, files, session, consumed, resp>>

(* register_organization from the flush of the Organization to the commit:
   a name that is taken fails the flush; the admin is inserted with the
   e-mail as it was sent, into an organization no other user is in *)
register_organization_commit ==
    /\ Idle
    /\ \E r \in 1..Len(requests) :
         /\ requests[r].op = "register_organization"
         /\ requests[r].pc = "selected"
         /\ LET request == requests[r]
                dup == \E o \in 1..Len(orgs) : orgs[o] = request.name
                org == OrgId(Len(orgs) + 1)
            IN  /\ orgs' = IF dup THEN orgs ELSE Append(orgs, request.name)
                /\ users' = IF dup THEN users
                            ELSE Append(users, NewUser(org, request.email,
                                                       request.secret, "GlobalAdmin"))
                /\ devices' = IF dup THEN devices
                              ELSE Append(devices, NewDevice(org, "edge"))
                /\ session' = IF dup THEN session ELSE Append(session, NoToken)
                /\ consumed' = IF dup THEN consumed ELSE Append(consumed, NoCode)
                /\ requests' = [requests EXCEPT ![r] =
                       [request EXCEPT
                           !.pc = "done", !.status = IF dup THEN 500 ELSE 201,
                           !.row = IF dup THEN 0 ELSE Len(users) + 1,
                           !.committed_at = Stamp]]
         /\ UNCHANGED <<now, ticks, cameras, rules, violations, caps, files,
                        resp>>

(* create_new_user up to its check that no user has the lower-cased
   e-mail: the guard, the role check and the select *)
create_new_user_select(tokens, emails, passwords, roles) ==
    /\ Idle
    /\ Len(requests) < MaxRequests
    /\ \E token \in tokens, email \in emails, password \in passwords,
          role \in roles :
           LET current == get_current_active_user(token)
               caller == current.user[2]
               status == IF current.status # 200 THEN current.status
                         ELSE IF users[caller].role # "GlobalAdmin" THEN 403
                         ELSE email_taken(Lower(email))
           IN  /\ requests' = Append(requests,
                      [Request0 EXCEPT
                          !.op = "create_new_user", !.name = role,
                          !.email = Lower(email), !.secret = password,
                          !.caller = IF current.status = 200 THEN caller ELSE 0,
                          !.loaded = IF current.status = 200 THEN users[caller]
                                     ELSE NoRow,
                          !.pc = IF status # 0 THEN "done" ELSE "selected",
                          !.status = status,
                          !.selected_at = Stamp])
               /\ UNCHANGED <<now, ticks, orgs, users, devices, cameras, rules,
                              violations, caps, files, session, consumed, resp>>

(* create_new_user from User(...) to the commit: the insert fails when the
   caller's organization has a user with the e-mail by now *)
create_new_user_commit ==
    /\ Idle
    /\ \E r \in 1..Len(requests) :
         /\ requests[r].op = "create_new_user"
         /\ requests[r].pc = "selected"
         /\ LET request == requests[r]
                org == request.loaded.organization_id
                dup == EmailInOrganization(request.email, org, 0)
            IN  /\ users' = IF dup THEN users
                            ELSE Append(users, NewUser(org, request.email,
                                                       request.secret, request.name))
                /\ session' = IF dup THEN session ELSE Append(session, NoToken)
                /\ consumed' = IF dup THEN consumed ELSE Append(consumed, NoCode)
                /\ requests' = [requests EXCEPT ![r] =
                       [request EXCEPT
                           !.pc = "done", !.status = IF dup THEN 500 ELSE 201,
                           !.row = IF dup THEN 0 ELSE Len(users) + 1,
                           !.committed_at = Stamp]]
         /\ UNCHANGED <<now, ticks, orgs, devices, cameras, rules, violations,
                        caps, files, resp>>

(* update_user_me with a new e-mail, up to its check that the e-mail is
   not taken: the guard and select(User).where(User.email == ...).first() *)
update_user_me_select(tokens, emails) ==
    /\ Idle
    /\ Len(requests) < MaxRequests
    /\ \E token \in tokens, email \in emails :
           LET current == get_current_active_user(token)
               caller == current.user[2]
               status == IF current.status # 200 THEN current.status
                         ELSE IF email # users[caller].email
                                 /\ UsersByEmail(email) # {} THEN 400
                         ELSE 0
           IN  /\ requests' = Append(requests,
                      [Request0 EXCEPT
                          !.op = "update_user_me", !.email = email,
                          !.caller = IF current.status = 200 THEN caller ELSE 0,
                          !.loaded = IF current.status = 200 THEN users[caller]
                                     ELSE NoRow,
                          !.pc = IF status # 0 THEN "done" ELSE "selected",
                          !.status = status,
                          !.selected_at = Stamp])
               /\ UNCHANGED <<now, ticks, orgs, users, devices, cameras, rules,
                              violations, caps, files, session, consumed, resp>>

(* update_user_me from current_user.email = ... to the commit: the UPDATE
   fails when the organization has another user with the e-mail by now *)
update_user_me_commit ==
    /\ Idle
    /\ \E r \in 1..Len(requests) :
         /\ requests[r].op = "update_user_me"
         /\ requests[r].pc = "selected"
         /\ LET request == requests[r]
                changed == request.email # request.loaded.email
                dup == changed /\ EmailInOrganization(request.email,
                                     request.loaded.organization_id, request.caller)
            IN  /\ users' = IF changed /\ ~dup
                            THEN [users EXCEPT ![request.caller].email = request.email]
                            ELSE users
                /\ requests' = [requests EXCEPT ![r] =
                       [request EXCEPT
                           !.pc = "done", !.status = IF dup THEN 500 ELSE 200,
                           !.row = request.caller,
                           !.committed_at = Stamp]]
         /\ UNCHANGED <<now, ticks, orgs, devices, cameras, rules, violations,
                        caps, files, session, consumed, resp>>

(* The accounts asked for: an organization name that is free and one that
   is taken, an e-mail that is free and one that is taken *)
AccountNames == {"orca", "acme"}
AccountEmails == {"c@x", "a@x"}

(* Registrations, user creations and profile updates, interleaved, by the
   admins of the two organizations, who log in first *)
NextEmailRace ==
    \/ login_for_access_token({"a@x", "b@x"}, {"pw1"})
    \/ Return
    \/ register_organization_select(AccountNames, AccountEmails, {"pw1"})
    \/ register_organization_commit
    \/ create_new_user_select(SessionTokens, AccountEmails, {"pw1"},
                              {"Supervisor"})
    \/ create_new_user_commit
    \/ update_user_me_select(SessionTokens, AccountEmails)
    \/ update_user_me_commit

SpecEmailRace == InitTenant /\ [][NextEmailRace]_vars

(* The organization "acme" has registered with the admin "a@x", who has
   logged in and enabled 2FA (toggle_2fa) *)
InitTwoFactor ==
    /\ now = 0
    /\ ticks = 0
    /\ orgs = <<"acme">>
    /\ users = <<[organization_id |-> OrgId(1), email |-> "a@x",
                  password_hash |-> get_password_hash("pw1"),
                  role |-> "GlobalAdmin", is_active |-> TRUE,
                  is_2fa_enabled |-> TRUE, otp_hash |-> NoHash,
                  otp_expires_at |-> NoTime]>>
    /\ devices = <<[organization_id |-> OrgId(1), name |-> "edge",
                    device_token_secret |->
                        [sub |-> DeviceId(1), type |-> "device",
                         exp |-> DeviceExpireMinutes, sig |-> TRUE],
                    last_heartbeat |-> NoTime]>>
    /\ cameras = <<>>
    /\ rules = <<>>
    /\ violations = <<>>
    /\ caps = {}
    /\ files = {Placeholder}
    /\ session = <<[sub |-> UserId(1), type |-> "user",
                    exp |-> ACCESS_TOKEN_EXPIRE_MINUTES, sig |-> TRUE]>>
    /\ consumed = <<NoCode>>
    /\ resp = Resp0
    /\ requests = <<>>

(* Logins and verifications of one user, interleaved *)
NextOtpRace ==
    \/ login_select({"a@x"}, Passwords)
    \/ login_commit
    \/ verify_2fa_select({"a@x"}, OtpCodes)
    \/ verify_2fa_commit

SpecOtpRace == InitTwoFactor /\ [][NextOtpRace]_vars

----------------------------------------------------------------------------
(* Provisioning: the two ways to a new organization *)

NextProvision ==
    \/ register_organization(OrgNames, Emails, Passwords)
    \/ provision_new_device(OrgNames, {"edge", "gate"})
    \/ login_for_access_token(Emails, Passwords)
    \/ Return

SpecProvision == Init /\ [][NextProvision]_vars

----------------------------------------------------------------------------
(* app/seed_custom_data.py: the store of a seeded deployment *)

MaxSeeded == 2

(* The instant of seeding: 2024-01-02 00:00 UTC *)
SeedNow == Midnight(2024, 1, 2)

(* The rooms of the seed, one camera kept for each *)
SeedRooms == <<"ICU Entrance">>

(* CUSTOM_CAPABILITIES with severity_map: codes and their severities *)
SeedCapabilities == {<<"no_mask", "Critical">>, <<"no_cap", "Medium">>}

(* date_cursor.replace(hour=random.randint(7, 20), minute=...): instants
   between 07:00 and 20:59 UTC on the days before the seeding *)
SeedTimes ==
    {Midnight(2024, 1, 1) + 7 * 60, Midnight(2023, 12, 31) + 20 * 60 + 30}

(* The Violation rows the seed can generate *)
SeedViolations ==
    [organization_id : {OrgId(1)},
     camera_id : {CameraId(c) : c \in 1..Len(SeedRooms)},
     timestamp_utc : SeedTimes,
     violation_type : {cap[1] : cap \in SeedCapabilities},
     severity : {cap[2] : cap \in SeedCapabilities},
     is_false_positive : BOOLEAN,
     is_resolved : BOOLEAN,
     snapshot_url : {Placeholder}]

(* seed_data: one organization with its admin, device, capabilities,
   cameras with their rules, and violations of the days before, the
   latest day first *)
seed_data ==
    /\ now = SeedNow
    /\ ticks = 0
    /\ orgs = <<"MediSafe Hospital">>
    /\ users = <<[organization_id |-> OrgId(1), email |-> "admin@medisafe.com",
                  password_hash |-> get_password_hash("admin123"),
                  role |-> "GlobalAdmin", is_active |-> TRUE,
                  is_2fa_enabled |-> FALSE, otp_hash |-> NoHash,
                  otp_expires_at |-> NoTime]>>
    /\ devices = <<[organization_id |-> OrgId(1), name |-> "Main-Hospital-Server",
                    device_token_secret |->
                        [sub |-> NoId, type |-> "secure_token_xyz",
                         exp |-> NoTime, sig |-> FALSE],
                    last_heartbeat |-> SeedNow]>>
    /\ caps = {[organization_id |-> OrgId(1), object_code |-> cap[1]] :
                  cap \in SeedCapabilities}
    /\ cameras = [c \in 1..Len(SeedRooms) |->
                     [organization_id |-> OrgId(1), device_id |-> DeviceId(1),
                      name |-> SeedRooms[c], rtsp_url |-> "rtsp://192.168.1.10/stream",
                      local_timezone |-> "UTC", status |-> "Online",
                      location |-> SeedRooms[c]]]
    /\ rules = [c \in 1..Len(SeedRooms) |->
                   [camera_id |-> CameraId(c), ppe_helmet_required |-> FALSE,
                    ppe_vest_required |-> FALSE, ppe_glasses_required |-> FALSE,
                    active_rules |-> {cap[1] : cap \in SeedCapabilities}]]
    /\ \E n \in 0..MaxSeeded :
          violations \in
              {rows \in [1..n -> SeedViolations] :
                  /\ \A i \in 1..n :
                        <<rows[i].violation_type, rows[i].severity>>
                            \in SeedCapabilities
                  /\ \A i, j \in 1..n :
                        i < j => rows[i].timestamp_utc \div MinutesPerDay
                                     >= rows[j].timestamp_utc \div MinutesPerDay}
    /\ files = {Placeholder}
    /\ session = <<NoToken>>
    /\ consumed = <<NoCode>>
    /\ resp = Resp0
    /\ requests = <<>>

(* What the dashboard of the seeded deployment asks for: the months and
   days of the seed, and the extreme timezone offsets *)
SeedMonths == {<<2023, 12>>, <<2024, 1>>, <<2024, 2>>}
SeedDates == {<<2023, 12, 31>>, <<2024, 1, 1>>, <<2024, 1, 32>>}
SeedOffsets == {0 - 720, 0, 840}

(* The analytics of the seeded deployment *)
NextAnalytics ==
    \/ login_for_access_token({"admin@medisafe.com"}, {"admin123"})
    \/ get_dashboard_stats(SessionTokens, SeedMonths, SeedOffsets)
    \/ get_day_details(SessionTokens, SeedDates, SeedOffsets)
    \/ Return

SpecAnalytics == seed_data /\ [][NextAnalytics]_vars

----------------------------------------------------------------------------
(* Properties of the authentication service *)

OtpHashes == {get_password_hash(c) : c \in OtpCodes}

(* The last request was a login whose e-mail and password are those of a
   user with 2FA enabled *)
TwoFactorLogin(i) ==
    /\ resp.op = "login"
    /\ users[i].email = resp.email
    /\ verify_password(resp.secret, users[i].password_hash)
    /\ users[i].is_active
    /\ users[i].is_2fa_enabled

(* The last response carries a user token of a user with 2FA enabled *)
MintedForTwoFactorUser ==
    /\ resp.token.type = "user"
    /\ resp.token.sub \in UserIds
    /\ users[resp.token.sub[2]].is_2fa_enabled

(* Such a token comes from verify_2fa_code, called with the code of the
   challenge that was pending, not later than the challenge's expiry *)
MintedByVerify ==
    MintedForTwoFactorUser =>
        /\ resp.op = "verify_2fa"
        /\ resp.principal = resp.token.sub
        /\ resp.challenge.otp_hash = get_password_hash(resp.secret)
        /\ now <= resp.challenge.otp_expires_at

(* C1, as amended: a login with the e-mail and the password of a user with
   2FA enabled returns no access token; it stores an OTP hash that expires
   5 minutes from now and answers is_2fa_required = true, or, when the
   e-mail dispatch fails, a server error (500).  A user token for such a
   user is minted only by verify_2fa_code, given the code of the pending
   challenge not later than its expiry. *)
C1_TwoFactorLoginNeverMints ==
    /\ \A i \in 1..Len(users) :
          TwoFactorLogin(i) =>
              /\ resp.token = NoToken
              /\ users[i].otp_hash \in OtpHashes
              /\ users[i].otp_expires_at = now + OtpExpireMinutes
              /\ IF resp.mail_sent
                 THEN resp.status = 200 /\ resp.is_2fa_required
                 ELSE resp.status = 500 /\ ~resp.is_2fa_required
    /\ MintedByVerify

(* C1, witness: a 2FA login has been answered with is_2fa_required *)
C1_Witness ==
    \E i \in 1..Len(users) :
        TwoFactorLogin(i) /\ resp.status = 200 /\ resp.is_2fa_required

(* C1, as the specification words it: every such login answers
   is_2fa_required = true *)
C1_Original ==
    /\ \A i \in 1..Len(users) :
          TwoFactorLogin(i) =>
              /\ resp.token = NoToken
              /\ users[i].otp_hash \in OtpHashes
              /\ users[i].otp_expires_at = now + OtpExpireMinutes
              /\ resp.is_2fa_required
    /\ MintedByVerify

(* C2: OTP codes are single-use.  A successful verify_2fa_code leaves the
   user's otp_hash and otp_expires_at cleared, and a verify_2fa_code given
   the code that the user's last successful verification used up, with no
   login having issued a new challenge since, fails and mints no token. *)
C2_OtpSingleUse ==
    resp.op = "verify_2fa" =>
        /\ resp.status = 200 =>
              /\ users[resp.principal[2]].otp_hash = NoHash
              /\ users[resp.principal[2]].otp_expires_at = NoTime
        /\ resp.replay => resp.status = 400 /\ resp.token = NoToken

(* C2, witness: the code just used up has been presented again *)
C2_Witness ==
    resp.op = "verify_2fa" /\ resp.replay /\ resp.status = 400

(* C3: for every active user with 2FA disabled, a login with that user's
   e-mail and password returns a token tagged "user" whose subject is that
   user, and get_current_active_user resolves the token to that user. *)
C3_LoginRoundTrip ==
    \A i \in 1..Len(users) :
        ( /\ resp.op = "login"
          /\ users[i].email = resp.email
          /\ verify_password(resp.secret, users[i].password_hash)
          /\ users[i].is_active
          /\ ~users[i].is_2fa_enabled )
        => /\ resp.status = 200
           /\ resp.token.type = "user"
           /\ resp.token.sub = UserId(i)
           /\ get_current_active_user(resp.token) = [status |-> 200, user |-> UserId(i)]

(* The operations behind the user guard *)
UserOps == {"toggle_2fa", "read_users_me"}

(* C4: get_current_active_user answers 401 to every validly signed,
   unexpired token whose type tag is not "user", whatever its subject, and
   so does every user endpoint such a token is presented to. *)
C4_UserGuardRejectsOtherKinds ==
    /\ \A token \in BearerTokens :
          JwtDecodes(token) /\ token.type # "user"
              => get_current_active_user(token) = [status |-> 401, user |-> NoId]
    /\ ( /\ resp.op \in UserOps
         /\ JwtDecodes(resp.presented)
         /\ resp.presented.type # "user" )
       => resp.status = 401 /\ resp.principal = NoId

(* C4, witness: a device's own token has been presented to a user endpoint *)
C4_Witness ==
    /\ resp.op \in UserOps
    /\ \E d \in 1..Len(devices) :
          /\ resp.presented = devices[d].device_token_secret
          /\ JwtDecodes(resp.presented)
    /\ resp.status = 401

(* C17: in a 2FA login the OTP hash and expiry are committed before the
   e-mail is dispatched.  When the dispatch fails the login answers a
   server error without a token, the committed OTP state stays, and a
   verify_2fa_code with that code, not later than its expiry, succeeds. *)
C17_OtpSurvivesFailedDispatch ==
    /\ \A i \in 1..Len(users) :
          (TwoFactorLogin(i) /\ ~resp.mail_sent) =>
              /\ resp.status = 500
              /\ resp.token = NoToken
              /\ users[i].otp_hash \in OtpHashes
              /\ users[i].otp_expires_at = now + OtpExpireMinutes
              /\ consumed[i] = Undelivered
    /\ ( /\ resp.op = "verify_2fa"
         /\ ~resp.mail_sent
         /\ resp.challenge.otp_hash = get_password_hash(resp.secret)
         /\ now <= resp.challenge.otp_expires_at )
       => /\ resp.status = 200
          /\ resp.token.type = "user"
          /\ resp.token.sub = resp.principal

(* C17, witness: the code of a challenge whose e-mail was not sent has
   been verified *)
C17_Witness ==
    /\ resp.op = "verify_2fa"
    /\ ~resp.mail_sent
    /\ resp.status = 200
    /\ resp.token.type = "user"

(* The error of the taxonomy that a verify_2fa_code on the challenge that
   was pending has to answer, "none" when it has to succeed *)
ExpectedVerifyError ==
    IF resp.challenge.otp_hash = NoHash THEN "NoChallengePending"
    ELSE IF now > resp.challenge.otp_expires_at THEN "ChallengeExpired"
    ELSE IF resp.challenge.otp_hash # get_password_hash(resp.secret)
         THEN "InvalidCode"
    ELSE "none"

(* The error of the taxonomy that a detail of verify_2fa_code stands for *)
VerifyErrorOf(detail) ==
    CASE detail = "No 2FA request pending." -> "NoChallengePending"
      [] detail = "Code expired. Please login again." -> "ChallengeExpired"
      [] detail = "Invalid verification code." -> "InvalidCode"
      [] OTHER -> detail

(* C18: verify_2fa_code fails, in this order of precedence, with
   NoChallengePending when the user has no stored OTP hash, with
   ChallengeExpired when now > expiry (a call at the expiry instant is
   still accepted), and with InvalidCode when the code does not match;
   a failing call mints no token and leaves otp_hash and otp_expires_at
   as they were. *)
C18_VerifyFailures ==
    (resp.op = "verify_2fa" /\ resp.principal # NoId) =>
        LET user == users[resp.principal[2]]
        IN  /\ VerifyErrorOf(resp.detail) = ExpectedVerifyError
            /\ ExpectedVerifyError = "none" => resp.status = 200
            /\ ExpectedVerifyError # "none" =>
                  /\ resp.status = 400
                  /\ resp.token = NoToken
                  /\ user.otp_hash = resp.challenge.otp_hash
                  /\ user.otp_expires_at = resp.challenge.otp_expires_at

(* C18, witness: a wrong code after the expiry of a pending challenge has
   been answered ChallengeExpired, and the challenge is still stored *)
C18_Witness ==
    /\ resp.op = "verify_2fa"
    /\ resp.principal # NoId
    /\ resp.status = 400
    /\ resp.detail = "Code expired. Please login again."
    /\ resp.challenge.otp_hash \in OtpHashes
    /\ resp.challenge.otp_hash # get_password_hash(resp.secret)
    /\ users[resp.principal[2]].otp_hash = resp.challenge.otp_hash

(* C28: registration then login round trip.  For every admin e-mail and
   password accepted by register_organization, e-mails with upper-case
   letters included, a following login with that same e-mail and password
   authenticates the created admin and returns a user token whose subject
   is that admin's id. *)
C28_RegisterThenLogin ==
    \A i \in 1..Len(users) :
        ( /\ resp.op = "login"
          /\ users[i].role = "GlobalAdmin"
          /\ users[i].email = resp.email
          /\ users[i].password_hash = get_password_hash(resp.secret)
          /\ ~users[i].is_2fa_enabled )
        => /\ resp.principal = UserId(i)
           /\ resp.status = 200
           /\ resp.token = session[i]
           /\ resp.token.type = "user"
           /\ resp.token.sub = UserId(i)

----------------------------------------------------------------------------
(* Properties of the device service *)

(* The operations a device calls *)
DeviceOps == {"handshake", "log_violation", "sync_capabilities"}

(* C5: every endpoint that expects a device (handshake, violation report,
   capability sync from the edge device) rejects a request whose credential
   is a user session token. *)
C5_DeviceEndpointsRejectUserTokens ==
    (resp.op \in DeviceOps /\ resp.presented.type = "user")
        => resp.status \in {401, 403}

(* C6: expiry is always checked.  A user token presented after its expiry
   is not accepted by a user endpoint, and a device token presented after
   its expiry is not accepted by the handshake or the violation report. *)
C6_ExpiryAlwaysChecked ==
    (resp.presented # NoToken /\ now > resp.presented.exp) =>
        /\ (resp.op = "sync_capabilities" /\ resp.presented.type = "user")
              => resp.status = 401
        /\ (resp.op \in {"handshake", "log_violation"}
                /\ resp.presented.type = "device")
              => resp.status \in {401, 403}

(* Every organization has one device: register_organization and
   provision_new_device create a device only together with its
   organization *)
OneDevicePerOrganization ==
    \A d, e \in 1..Len(devices) :
        devices[d].organization_id = devices[e].organization_id => d = e

(* C7: a device can report a violation only for a camera of its own.  A
   report from device D for a camera C with C.device_id # D.id is answered
   403 and creates no row: no Violation row names a camera of another
   device than the one of the row's organization.  (log_violation compares
   the organizations of C and D; the two comparisons agree because every
   organization has one device.) *)
C7_ReportOnlyForOwnCamera ==
    /\ OneDevicePerOrganization
    /\ ( /\ resp.op = "log_violation"
         /\ resp.principal # NoId
         /\ resp.camera # NoId
         /\ cameras[resp.camera[2]].device_id # resp.principal )
       => resp.status = 403 /\ resp.target = NoId
    /\ \A v \in 1..Len(violations), d \in 1..Len(devices) :
          devices[d].organization_id = violations[v].organization_id
              => cameras[violations[v].camera_id[2]].device_id = DeviceId(d)

(* C7, witness: a device has reported for a camera of another device *)
C7_Witness ==
    /\ resp.op = "log_violation"
    /\ resp.principal # NoId
    /\ resp.camera # NoId
    /\ cameras[resp.camera[2]].device_id # resp.principal
    /\ resp.status = 403

(* C8: every Violation row has the organization_id of its camera and of
   the device that reported it, and the row a report has just inserted
   carries is_false_positive = FALSE and is_resolved = FALSE. *)
C8_ViolationCarriesDeviceOrganization ==
    /\ \A v \in 1..Len(violations) :
          LET camera == cameras[violations[v].camera_id[2]]
          IN  /\ violations[v].organization_id = camera.organization_id
              /\ violations[v].organization_id
                     = devices[camera.device_id[2]].organization_id
    /\ (resp.op = "log_violation" /\ resp.status = 201) =>
          LET row == violations[resp.target[2]]
          IN  /\ row.camera_id = resp.camera
              /\ row.organization_id = devices[resp.principal[2]].organization_id
              /\ ~row.is_false_positive
              /\ ~row.is_resolved

(* C8, witness: a report has been recorded *)
C8_Witness ==
    /\ resp.op = "log_violation"
    /\ resp.status = 201
    /\ resp.target = ViolationId(Len(violations))

(* The cameras that have the stream URL u on the device d *)
CamerasOf(cams, d, u) ==
    {c \in 1..Len(cams) : cams[c].device_id = d /\ cams[c].rtsp_url = u}

(* A handshake that is answered 200: every URL it reports that was stored
   for the device has its camera "Online", every other has one new camera,
   and nothing else is inserted *)
HandshakeUpserts ==
    (resp'.op = "handshake" /\ resp'.status = 200) =>
        LET d == resp'.principal
            reported == {resp'.query[i] : i \in 1..Len(resp'.query)}
            stored == {u \in reported : CamerasOf(cameras, d, u) # {}}
        IN  /\ Len(cameras') = Len(cameras) + Cardinality(reported \ stored)
            /\ \A u \in stored :
                  /\ CamerasOf(cameras', d, u) = CamerasOf(cameras, d, u)
                  /\ \A c \in CamerasOf(cameras', d, u) : cameras'[c].status = "Online"
            /\ \A u \in reported : Cardinality(CamerasOf(cameras', d, u)) = 1

(* C15: the handshake upserts.  After any sequence of handshakes no two
   Camera rows have the same device_id and stream URL; a handshake that
   reports a URL already stored for the device sets that camera's status
   to "Online" and inserts nothing, also when the URL occurs twice in the
   camera list. *)
C15_HandshakeUpsert ==
    /\ [](\A c1, c2 \in 1..Len(cameras) :
             (/\ cameras[c1].device_id = cameras[c2].device_id
              /\ cameras[c1].rtsp_url = cameras[c2].rtsp_url) => c1 = c2)
    /\ [][HandshakeUpserts]_vars

(* C15, witness: a handshake has reported the same new URL twice, and the
   device has one camera *)
C15_Witness ==
    /\ resp.op = "handshake"
    /\ resp.status = 200
    /\ Len(resp.query) = 2
    /\ resp.query[1] = resp.query[2]
    /\ Cardinality(CamerasOf(cameras, resp.principal, resp.query[1])) = 1

(* C23: violation ingestion fails fast.  A report rejected for an unknown
   device token (401), an unknown camera (404) or a camera outside the
   device's organization (403) inserts no Violation row and leaves every
   last_heartbeat unchanged; a successful report inserts exactly one
   Violation row and updates the reporting device's last_heartbeat. *)
C23_IngestionFailsFast ==
    resp.op = "log_violation" =>
        /\ resp.status \in {401, 404, 403} =>
              /\ violations = resp.query[1]
              /\ devices = resp.query[2]
        /\ resp.status = 201 =>
              /\ Len(violations) = Len(resp.query[1]) + 1
              /\ SubSeq(violations, 1, Len(resp.query[1])) = resp.query[1]
              /\ resp.target = ViolationId(Len(violations))
              /\ devices[resp.principal[2]].last_heartbeat = now
              /\ \A d \in 1..Len(devices) :
                    DeviceId(d) # resp.principal =>
                        devices[d] = resp.query[2][d]

(* C23, witness: a report on a camera of another organization has been
   rejected, and the device's earlier heartbeat stands *)
C23_Witness ==
    /\ resp.op = "log_violation"
    /\ resp.status = 403
    /\ devices[resp.principal[2]].last_heartbeat \notin {NoTime, now}

(* C23, witness of the success: a second report has been recorded *)
C23_Recorded ==
    /\ resp.op = "log_violation"
    /\ resp.status = 201
    /\ Len(violations) = 2
    /\ devices[resp.principal[2]].last_heartbeat # resp.query[2][resp.principal[2]].last_heartbeat

(* C16: provisioning is all-or-nothing.  After any sequence of
   provisioning requests (register_organization, provision_new_device),
   failed ones too, every Organization row has an admin User and a
   Device. *)
C16_ProvisioningAllOrNothing ==
    \A o \in 1..Len(orgs) :
        /\ \E u \in 1..Len(users) :
              /\ users[u].organization_id = OrgId(o)
              /\ users[u].role = "GlobalAdmin"
        /\ \E d \in 1..Len(devices) : devices[d].organization_id = OrgId(o)

----------------------------------------------------------------------------
(* Properties of the dashboard *)

(* The operations that read for a user *)
ReadOps ==
    {"get_violation_logs", "get_dashboard_stats", "get_day_details",
     "list_cameras", "list_organization_devices", "list_organization_users",
     "list_capabilities"}

(* The rows of the store whose organization is org; a rule is of the
   organization of its camera *)
OrganizationRows(org) ==
    [users |-> {i \in Database.users : users[i].organization_id = org},
     devices |-> {d \in Database.devices : devices[d].organization_id = org},
     cameras |-> {c \in Database.cameras : cameras[c].organization_id = org},
     rules |-> {r \in Database.rules :
                   cameras[rules[r].camera_id[2]].organization_id = org},
     violations |-> {v \in Database.violations :
                        violations[v].organization_id = org},
     caps |-> {k \in Database.caps : k.organization_id = org}]

(* Stores that differ from the present one in rows of other organizations
   than org only: the present one, and the ones without the rows that any
   one table, or every table, has of other organizations *)
StoresDifferingElsewhere(org) ==
    LET own == OrganizationRows(org)
    IN  {Database, own}
        \cup {[Database EXCEPT ![table] = own[table]] : table \in DOMAIN Database}

(* C9: tenant isolation of the reads of a user U (violation listing,
   dashboard-stats, day-details, camera list, device list, user list,
   capability list): the answer is one the rows of U's organization alone
   give, and every store that differs from the present one only in rows of
   other organizations gives the same answers. *)
C9_TenantIsolation ==
    (resp.op \in ReadOps /\ resp.status = 200) =>
        LET org == users[resp.principal[2]].organization_id
            own == ReadResults(resp.op, OrganizationRows(org), org, resp.query)
        IN  /\ resp.body \in own
            /\ \A db \in StoresDifferingElsewhere(org) :
                  ReadResults(resp.op, db, org, resp.query) = own

(* C9, witness: a user has listed the violations of their organization
   while another organization has violations too *)
C9_Witness ==
    /\ resp.op = "get_violation_logs"
    /\ resp.status = 200
    /\ Len(resp.body) >= 1
    /\ \E v \in 1..Len(violations) :
          violations[v].organization_id
              # users[resp.principal[2]].organization_id

(* C10: the snapshot endpoint, for an authenticated user U and a violation
   id v, answers 404 when no Violation has the id v, 403 when the Violation
   is of another organization than U's, and otherwise serves the evidence
   file, or the placeholder when the evidence file is missing; it does not
   fail for a missing evidence file.  (v is an id; a string that is not a
   UUID is answered 400.) *)
C10_SnapshotNeverFailsForMissingFile ==
    ( /\ resp.op = "get_violation_snapshot"
      /\ resp.principal # NoId
      /\ resp.target[2] # MalformedId )
    => LET u == resp.principal[2]
           v == resp.target[2]
       IN  IF v \notin 1..Len(violations) THEN resp.status = 404
           ELSE IF violations[v].organization_id # users[u].organization_id
                THEN resp.status = 403
                ELSE /\ resp.status = 200
                     /\ resp.body = IF violations[v].snapshot_url \in files
                                    THEN violations[v].snapshot_url
                                    ELSE Placeholder

(* C10, witness: the placeholder has been served for a missing file *)
C10_Witness ==
    /\ resp.op = "get_violation_snapshot"
    /\ resp.status = 200
    /\ resp.body = Placeholder
    /\ violations[resp.target[2]].snapshot_url \notin files

----------------------------------------------------------------------------
(* Properties of the analytics *)

(* The calendar months around the seed *)
CalendarMonths == (2023..2024) \X (1..12)

(* The calendar date of an instant: the month its day lies in, and the day
   of that month *)
LocalDate(t) ==
    LET days == t \div MinutesPerDay
        in_month == CHOOSE m \in CalendarMonths :
                        /\ DaysTo(m[1], m[2]) <= days
                        /\ days < DaysTo(m[1], m[2]) + DaysIn(m[1], m[2])
    IN  <<in_month[1], in_month[2], days - DaysTo(in_month[1], in_month[2]) + 1>>

(* The violations of the organization of the user who was answered *)
OwnViolations ==
    {v \in 1..Len(violations) :
        violations[v].organization_id = users[resp.principal[2]].organization_id}

(* C11: monthly bucketing by local day.  For a violation of the caller's
   organization with timestamp T and an offset O, dashboard-stats with
   timezone_offset = O counts the violation in the bucket of the local day
   of T + O when asked for the month of T + O, in no other bucket, and not
   at all when asked for another month: every day bucket counts exactly the
   violations whose local date is that day. *)
C11_MonthlyBucketingByLocalDay ==
    (resp.op = "get_dashboard_stats" /\ resp.status = 200) =>
        LET year == resp.query[1][1]
            month == resp.query[1][2]
            offset == resp.query[2]
            trend == resp.body.trend_data
            local == {<<v, LocalDate(violations[v].timestamp_utc + offset)>> :
                         v \in OwnViolations}
        IN  \A d \in DOMAIN trend :
               trend[d].counters["total_valid"] + trend[d].counters["total_false"]
                   = Cardinality({row \in local : row[2] = <<year, month, d>>})

(* C11, witness: dashboard-stats has counted a violation in a month and on
   a day that are not the month and day of its UTC timestamp *)
C11_Witness ==
    /\ resp.op = "get_dashboard_stats"
    /\ resp.status = 200
    /\ \E v \in OwnViolations :
          LET local == LocalDate(violations[v].timestamp_utc + resp.query[2])
              utc == LocalDate(violations[v].timestamp_utc)
          IN  /\ local[2] # utc[2]
              /\ <<local[1], local[2]>> = resp.query[1]
              /\ resp.body.trend_data[local[3]].counters["total_valid"]
                     + resp.body.trend_data[local[3]].counters["total_false"] >= 1

(* The number of days of a month of the Gregorian calendar *)
days_in_month(year, month) ==
    LET leap == (year % 4 = 0 /\ year % 100 # 0) \/ year % 400 = 0
    IN  <<31, IF leap THEN 29 ELSE 28, 31, 30, 31, 30, 31, 31, 30, 31, 30, 31>>[month]

(* C12: the analytics output is dense.  dashboard-stats returns exactly
   days_in_month(year, month) day buckets, one per calendar day in
   ascending order, and day-details returns exactly 24 hour buckets with
   raw_hour 0..23; a bucket with no matching violation has zero totals,
   also when the organization has no violations at all. *)
C12_DenseBuckets ==
    /\ (resp.op = "get_dashboard_stats" /\ resp.status = 200) =>
          LET year == resp.query[1][1]
              month == resp.query[1][2]
              trend == resp.body.trend_data
              local == {LocalDate(violations[v].timestamp_utc + resp.query[2]) :
                           v \in OwnViolations}
          IN  /\ DOMAIN trend = 1..days_in_month(year, month)
              /\ \A d \in DOMAIN trend :
                    /\ trend[d].full_date = <<year, month, d>>
                    /\ trend[d].day = <<d, month>>
                    /\ <<year, month, d>> \notin local =>
                          /\ trend[d].counters["total_valid"] = 0
                          /\ trend[d].counters["total_false"] = 0
    /\ (resp.op = "get_day_details" /\ resp.status = 200) =>
          LET hourly == resp.body.hourly_data
              local == {<<LocalDate(violations[v].timestamp_utc + resp.query[2]),
                          ((violations[v].timestamp_utc + resp.query[2])
                              % MinutesPerDay) \div 60>> : v \in OwnViolations}
          IN  /\ DOMAIN hourly = 0..23
              /\ \A h \in DOMAIN hourly :
                    /\ hourly[h].raw_hour = h
                    /\ <<resp.query[1], h>> \notin local =>
                          /\ hourly[h].counters["total_violations"] = 0
                          /\ hourly[h].counters["total_false"] = 0

(* C12, witness: dashboard-stats has answered for February 2024, with 29
   day buckets, for an organization without violations *)
C12_Witness ==
    /\ resp.op = "get_dashboard_stats"
    /\ resp.status = 200
    /\ resp.query[1] = <<2024, 2>>
    /\ violations = <<>>
    /\ DOMAIN resp.body.trend_data = 1..29

(* The severities, with the names of their false-positive counters *)
FalseCounterNames ==
    {<<"Critical", "false_critical">>, <<"High", "false_high">>,
     <<"Medium", "false_medium">>, <<"Low", "false_low">>}

(* The value of a counter of a bucket; a counter that is absent counts 0 *)
CounterOf(counters, k) == IF k \in DOMAIN counters THEN counters[k] ELSE 0

(* C13: the counters of a day bucket of dashboard-stats.  total_false is
   the number of false-positive violations of the organization on that
   local day and total_valid the number of the others; for each severity s
   the counter false_<lowercase s> is the number of false positives of
   severity s, and for each type code t the counter keyed t is the number
   of the non-false-positive violations of type t. *)
C13_BucketCounters ==
    (resp.op = "get_dashboard_stats" /\ resp.status = 200) =>
        LET year == resp.query[1][1]
            month == resp.query[1][2]
            trend == resp.body.trend_data
            local == {<<v, LocalDate(violations[v].timestamp_utc + resp.query[2])>> :
                         v \in OwnViolations}
        IN  \A d \in DOMAIN trend :
               LET rows == {row[1] : row \in {r \in local : r[2] = <<year, month, d>>}}
                   false == {v \in rows : violations[v].is_false_positive}
                   valid == rows \ false
                   counters == trend[d].counters
               IN  /\ counters["total_false"] = Cardinality(false)
                   /\ counters["total_valid"] = Cardinality(valid)
                   /\ \A s \in FalseCounterNames :
                         CounterOf(counters, s[2])
                             = Cardinality({v \in false : violations[v].severity = s[1]})
                   /\ \A cap \in SeedCapabilities :
                         CounterOf(counters, cap[1])
                             = Cardinality({v \in valid :
                                               violations[v].violation_type = cap[1]})

(* C13, witness: a day bucket with a valid violation and a false positive
   of severity Medium: total_valid = 1, total_false = 1, false_medium = 1 *)
C13_Witness ==
    /\ resp.op = "get_dashboard_stats"
    /\ resp.status = 200
    /\ \E d \in DOMAIN resp.body.trend_data :
          LET counters == resp.body.trend_data[d].counters
          IN  /\ counters["total_valid"] = 1
              /\ counters["total_false"] = 1
              /\ CounterOf(counters, "false_medium") = 1
    /\ \E v \in OwnViolations :
          violations[v].is_false_positive /\ violations[v].severity = "Medium"

(* C14: the resolution rate of dashboard-stats is 0 when the window holds
   no violation, and otherwise resolved / total * 100 rounded to one
   decimal, where total counts every violation of the organization in the
   window, false positives too, and resolved those with is_resolved; it
   lies in 0..100.  (The rate is in tenths of a percent.) *)
C14_ResolutionRate ==
    (resp.op = "get_dashboard_stats" /\ resp.status = 200) =>
        LET window == {v \in OwnViolations :
                          LET local == LocalDate(violations[v].timestamp_utc
                                                     + resp.query[2])
                          IN  <<local[1], local[2]>> = resp.query[1]}
            total == Cardinality(window)
            resolved == Cardinality({v \in window : violations[v].is_resolved})
            rate == resp.body.stats.resolution_rate
            distance == IF rate * total >= 1000 * resolved
                        THEN rate * total - 1000 * resolved
                        ELSE 1000 * resolved - rate * total
        IN  /\ rate \in 0..1000
            /\ total = 0 => rate = 0
            /\ total > 0 => 2 * distance <= total

(* C14, witness: a rate of 50.0 over a window of two violations, one
   resolved, one a false positive *)
C14_Witness ==
    /\ resp.op = "get_dashboard_stats"
    /\ resp.status = 200
    /\ resp.body.stats.resolution_rate = 500
    /\ resp.body.stats.total_false_positives = 1
    /\ resp.body.stats.total_valid_violations = 1

(* The sum of a counter over the day buckets 1..d of a trend *)
RECURSIVE BucketSum(_, _, _)
BucketSum(trend, k, d) ==
    IF d = 0 THEN 0
    ELSE CounterOf(trend[d].counters, k) + BucketSum(trend, k, d - 1)

(* C27: conservation between KPIs and buckets in dashboard-stats.  For
   every organization, month and offset, the sum of total_valid over all
   day buckets equals stats.total_valid_violations and the sum of
   total_false over all day buckets equals stats.total_false_positives: no
   violation that passes the window filter is dropped by the bucket fold
   and none is counted twice. *)
C27_KpiBucketConservation ==
    (resp.op = "get_dashboard_stats" /\ resp.status = 200) =>
        LET trend == resp.body.trend_data
        IN  /\ BucketSum(trend, "total_valid", Len(trend))
                   = resp.body.stats.total_valid_violations
            /\ BucketSum(trend, "total_false", Len(trend))
                   = resp.body.stats.total_false_positives

----------------------------------------------------------------------------
(* Properties of the administration *)

(* The operations that change the rule configuration of a camera *)
RuleOps == {"update_camera_rules", "update_camera"}

(* C19: camera rules are mutable only by privileged roles.  Every
   operation that changes a camera's rule configuration, called by a user
   whose role is not GlobalAdmin or Supervisor, fails with 403 and leaves
   the rules unchanged.  (Of update_camera, the calls that carry rules for
   a camera of the caller's organization.) *)
C19_RulesOnlyByPrivilegedRoles ==
    ( /\ resp.op \in RuleOps
      /\ resp.principal # NoId
      /\ resp.op = "update_camera" =>
             resp.camera # NoId /\ resp.query[1] # NoRules
      /\ users[resp.principal[2]].role \notin {"GlobalAdmin", "Supervisor"} )
    => /\ resp.status = 403
       /\ rules = resp.query[2]

(* C20: user creation by an admin.  create_new_user called by a user whose
   role is not GlobalAdmin fails with 403 and creates no row; on success
   the new user's organization_id is the caller's, whatever organization_id
   the request body carries. *)
C20_CreatedInCallersOrganization ==
    (resp.op = "create_new_user" /\ resp.principal # NoId) =>
        LET caller == users[resp.principal[2]]
        IN  /\ caller.role # "GlobalAdmin" =>
                  /\ resp.status = 403
                  /\ Len(users) = resp.query[2]
            /\ resp.status = 201 =>
                  /\ Len(users) = resp.query[2] + 1
                  /\ resp.target = UserId(Len(users))
                  /\ users[Len(users)].organization_id = caller.organization_id
            /\ resp.status # 201 => Len(users) = resp.query[2]

(* C20, witness: a GlobalAdmin has created a user with the organization_id
   of another organization in the request body *)
C20_Witness ==
    /\ resp.op = "create_new_user"
    /\ resp.status = 201
    /\ resp.query[1] # NoId
    /\ resp.query[1] # users[resp.principal[2]].organization_id
    /\ users[resp.target[2]].organization_id
           = users[resp.principal[2]].organization_id

(* The organization of the verified principal a request presents, NoId
   when it presents none *)
OrganizationOf(token) ==
    LET current == get_current_active_user(token)
    IN  IF current.status = 200 THEN users[current.user[2]].organization_id
        ELSE IF DevicesByToken(token) # {}
             THEN devices[CHOOSE d \in DevicesByToken(token) : TRUE].organization_id
        ELSE NoId

(* C24: the device config pull returns a device's cameras and rule
   configuration only to a verified principal of the organization of the
   requested device; a request with no credential, or from a principal of
   another organization, obtains no Camera or CameraRule data. *)
C24_ConfigOnlyToOwnOrganization ==
    (resp.op = "get_device_config" /\ resp.query[1] # {}) =>
        /\ OrganizationOf(resp.presented) # NoId
        /\ OrganizationOf(resp.presented)
               = devices[resp.target[2]].organization_id

----------------------------------------------------------------------------
(* Properties of the capability catalog *)

SyncOps == {"sync_capabilities", "capabilities_sync_capabilities"}

(* The object codes of a payload *)
CodesOf(capabilities) == {capabilities[i] : i \in 1..Len(capabilities)}

(* The rows of a capability table that are not of organization org *)
CapabilitiesElsewhere(table, org) == {k \in table : k.organization_id # org}

(* C21: capability sync replaces the catalog wholesale.  After a
   successful sync for organization X with a list L of distinct codes, the
   capability rows of X are exactly the entries of L, and the capability
   rows of every other organization are unchanged. *)
C21_SyncReplacesCatalog ==
    ( /\ resp.op \in SyncOps
      /\ resp.status = 200
      /\ ~Repeats(resp.query[1]) )
    => LET org == users[resp.principal[2]].organization_id
       IN  /\ organization_capabilities(Database, org) = CodesOf(resp.query[1])
           /\ CapabilitiesElsewhere(caps, org)
                  = CapabilitiesElsewhere(resp.query[2], org)

(* C21, witness: a sync has removed an earlier entry of its organization
   while another organization has a catalog *)
C21_Witness ==
    /\ resp.op = "sync_capabilities"
    /\ resp.status = 200
    /\ LET org == users[resp.principal[2]].organization_id
       IN  /\ \E k \in resp.query[2] :
                 /\ k.organization_id = org
                 /\ k.object_code \notin CodesOf(resp.query[1])
                 /\ k \notin caps
           /\ resp.query[1] # <<>>
           /\ CapabilitiesElsewhere(caps, org) # {}

(* C30: capability sync is atomic on failure.  A sync request that fails
   after its delete step (its list holds an object_code twice) leaves the
   organization's previous catalog fully present; no failed sync leaves
   the catalog empty or partly replaced. *)
C30_FailedSyncKeepsCatalog ==
    ( /\ resp.op \in SyncOps
      /\ resp.status # 200 )
    => /\ caps = resp.query[2]
       /\ (resp.principal # NoId /\ Repeats(resp.query[1])) => resp.status = 500

(* C30, witness: a sync with a repeated object_code has failed on an
   organization that had a catalog *)
C30_Witness ==
    /\ resp.op = "sync_capabilities"
    /\ resp.status = 500
    /\ Repeats(resp.query[1])
    /\ \E k \in caps : k.organization_id = users[resp.principal[2]].organization_id
    /\ caps = resp.query[2]

----------------------------------------------------------------------------
(* Properties of concurrent requests *)

(* The 2FA logins for the user of request v that had committed their
   challenge when v selected the user *)
LoginsBefore(v) ==
    {l \in Done : /\ requests[l].op = "login"
                  /\ requests[l].row = requests[v].row
                  /\ requests[l].code # NoCode
                  /\ requests[l].committed_at < requests[v].selected_at}

(* The one of them that committed last, 0 when there is none *)
LastLogin(v) ==
    IF LoginsBefore(v) = {} THEN 0
    ELSE CHOOSE l \in LoginsBefore(v) :
             \A k \in LoginsBefore(v) :
                 requests[k].committed_at <= requests[l].committed_at

(* The verifications of the user of v that had cleared the challenge of
   login l when v selected the user *)
ClearedBefore(v, l) ==
    {w \in Done : /\ requests[w].op = "verify_2fa"
                  /\ requests[w].row = requests[v].row
                  /\ requests[w].status = 200
                  /\ requests[w].committed_at > requests[l].committed_at
                  /\ requests[w].committed_at < requests[v].selected_at}

(* C22: at most one OTP is valid per user at any time, last write wins.
   After two 2FA logins for the same user, in sequence or interleaved, a
   verify_2fa accepts the code whose hash was committed last and only
   that one; a code that differs from it, the code of the overwritten
   challenge included, is rejected. *)
C22_LastOtpWins ==
    \A v \in Done :
        ( /\ requests[v].op = "verify_2fa"
          /\ Cardinality(LoginsBefore(v)) >= 2
          /\ ClearedBefore(v, LastLogin(v)) = {} )
        => /\ requests[v].status = 200
                 <=> requests[v].secret = requests[LastLogin(v)].code
           /\ requests[v].status # 200 =>
                 /\ requests[v].status = 400
                 /\ requests[v].token = NoToken

(* C22, witness: of two interleaved logins the first to select committed
   last, and the code of the other, the overwritten one, has been
   rejected *)
C22_Witness ==
    \E l1, l2, v \in Done :
        /\ requests[v].op = "verify_2fa"
        /\ LoginsBefore(v) = {l1, l2}
        /\ requests[l1].selected_at < requests[l2].selected_at
        /\ requests[l2].selected_at < requests[l1].committed_at
        /\ requests[l2].committed_at < requests[l1].committed_at
        /\ requests[l1].code # requests[l2].code
        /\ requests[v].secret = requests[l2].code
        /\ requests[v].status = 400
        /\ users[requests[v].row].otp_hash
               = get_password_hash(requests[l1].code)

(* C25: single use under concurrency.  Of two verify_2fa requests that
   carry the same correct code for the same pending challenge, in every
   interleaving, at most one mints a user token. *)
C25_OneTokenPerChallenge ==
    \A v, w \in Done :
        ( /\ v # w
          /\ requests[v].op = "verify_2fa"
          /\ requests[w].op = "verify_2fa"
          /\ requests[v].row = requests[w].row
          /\ requests[v].secret = requests[w].secret
          /\ LastLogin(v) # 0
          /\ LastLogin(v) = LastLogin(w) )
        => ~ /\ requests[v].token # NoToken
             /\ requests[w].token # NoToken

(* C26: handshake upsert under concurrency.  After two handshakes from
   the same device that both report the same new stream URL, in every
   interleaving, the store holds exactly one Camera row for (device_id,
   stream URL) and exactly one CameraRule row for it. *)
C26_OneCameraPerStream ==
    \A h, k \in Done :
        ( /\ h # k
          /\ requests[h].op = "handshake"
          /\ requests[k].op = "handshake"
          /\ requests[h].status = 200
          /\ requests[k].status = 200
          /\ requests[h].row = requests[k].row
          /\ requests[h].secret = requests[k].secret )
        => \E c \in 1..Len(cameras) :
              /\ {x \in 1..Len(cameras) :
                     /\ cameras[x].device_id = DeviceId(requests[h].row)
                     /\ cameras[x].rtsp_url = requests[h].secret} = {c}
              /\ Cardinality(RulesByCamera(c)) = 1

(* C29: login identifies at most one account.  After any sequence or
   interleaving of register_organization, create_new_user and
   update_user_me requests, no two User rows, in the same or in different
   organizations, hold the same e-mail. *)
C29_EmailIdentifiesOneUser ==
    \A u, v \in 1..Len(users) :
        users[u].email = users[v].email => u = v

====
